---------------------------- MODULE Spec2Model ----------------------------
(***************************************************************************)
(* A model of rusnmp: the BER codec (src/src/ber), the SNMP message layer  *)
(* (src/src/snmp) and the manager operations get, walk, get_bulk and       *)
(* bulk_walk (src/src/manager).                                            *)
(*                                                                         *)
(* Bytes are naturals 0..255, byte strings are sequences of bytes, an OID  *)
(* is a sequence of naturals, and a Rust String is a sequence of           *)
(* one-character strings.  A Result is a record with a field ok; on        *)
(* failure its field err is a tuple naming the error variant.              *)
(***************************************************************************)
EXTENDS Integers, Sequences, FiniteSets, TLC

\* ------------------------------------------------------------------------
\* Asn1Tag (src/src/ber/mod.rs): a tag is represented by its byte.
\* ------------------------------------------------------------------------
Integer == 2
OctetString == 4
Null == 5
ObjectIdentifier == 6
Sequence == 48
IpAddress == 64
Counter32 == 65
Gauge32 == 66
TimeTicks == 67
Opaque == 68
Counter64 == 70
GetRequest == 160
GetNextRequest == 161
GetResponse == 162
SetRequest == 163
Trap == 164
GetBulkRequest == 165
InformRequest == 166
SnmpV2Trap == 167
NoSuchObject == 128
NoSuchInstance == 129
EndOfMib == 130

\* The bytes Asn1Tag::from_u8 accepts.
Asn1Tag ==
    { Integer, OctetString, Null, ObjectIdentifier, Sequence,
      IpAddress, Counter32, Gauge32, TimeTicks, Opaque, Counter64,
      GetRequest, GetNextRequest, GetResponse, SetRequest, Trap,
      GetBulkRequest, InformRequest, SnmpV2Trap,
      NoSuchObject, NoSuchInstance, EndOfMib }

\* ErrorStatus (src/src/snmp/pdu.rs), by discriminant.
NoError == 0
TooBig == 1
NoSuchName == 2
BadValue == 3
ReadOnly == 4
GenErr == 5

\* ------------------------------------------------------------------------
\* Slices and results
\* ------------------------------------------------------------------------
\* &input[n..]
Skip(s, n) == SubSeq(s, n + 1, Len(s))

\* &input[..n]
Take(s, n) == SubSeq(s, 1, n)

\* Err(e) of any BerResult / anyhow::Result
Err(e) == [ok |-> FALSE, err |-> e]

\* ------------------------------------------------------------------------
\* BER reader (src/src/ber/mod.rs)
\* ------------------------------------------------------------------------
\* Asn1Tag::from_u8
from_u8(tag_byte) ==
    IF tag_byte \in Asn1Tag
    THEN [ok |-> TRUE, tag |-> tag_byte]
    ELSE Err(<<"UnsupportedType", tag_byte>>)

\* parse_tag: Ok gives (tag, rest)
parse_tag(input) ==
    IF Len(input) = 0 THEN Err(<<"IncompleteData">>)
    ELSE LET t == from_u8(input[1])
         IN  IF ~t.ok THEN t
             ELSE [ok |-> TRUE, tag |-> t.tag, rest |-> Skip(input, 1)]

\* The loop of parse_length over the length bytes: value_len = (value_len << 8) | byte
RECURSIVE FoldLength(_, _)
FoldLength(value_len, len_bytes_slice) ==
    IF Len(len_bytes_slice) = 0 THEN value_len
    ELSE FoldLength(value_len * 256 + len_bytes_slice[1], Skip(len_bytes_slice, 1))

\* parse_length: Ok gives (value_len, rest)
parse_length(input) ==
    IF Len(input) = 0 THEN Err(<<"IncompleteData">>)
    ELSE LET len_byte == input[1]
         IN  IF len_byte <= 127
             THEN [ok |-> TRUE, value_len |-> len_byte, rest |-> Skip(input, 1)]
             ELSE IF len_byte = 128 \/ len_byte = 255
             THEN Err(<<"MalformedLength">>)
             ELSE LET num_len_bytes == len_byte % 128
                  IN  IF num_len_bytes > 8 \/ Len(input) < 1 + num_len_bytes
                      THEN Err(<<"MalformedLength">>)
                      ELSE [ok |-> TRUE,
                            value_len |-> FoldLength(0, SubSeq(input, 2, 1 + num_len_bytes)),
                            rest |-> Skip(input, 1 + num_len_bytes)]

\* parse_ber_object: Ok gives (BerObject {tag, header_len, value_len, value}, rest)
parse_ber_object(input) ==
    LET t == parse_tag(input)
    IN  IF ~t.ok THEN t
        ELSE LET l == parse_length(t.rest)
             IN  IF ~l.ok THEN l
                 ELSE IF Len(l.rest) < l.value_len THEN Err(<<"IncompleteData">>)
                 ELSE [ok |-> TRUE,
                       tag |-> t.tag,
                       header_len |-> Len(input) - Len(l.rest),
                       value_len |-> l.value_len,
                       value |-> Take(l.rest, l.value_len),
                       rest |-> Skip(l.rest, l.value_len)]

\* decode_oid_sub_id, from byte i of input with sub_id accumulated so far:
\* Ok gives (sub_id, rest).  sub_id << 7 is a u32 shift: the bits above 32 are lost.
RECURSIVE decode_oid_sub_id_from(_, _, _)
decode_oid_sub_id_from(input, i, sub_id) ==
    IF i > Len(input) THEN Err(<<"IncompleteData">>)
    ELSE IF i > 5 THEN Err(<<"IntegerOverflow">>)
    ELSE LET bytes == input[i]
             next == (sub_id % 33554432) * 128 + (bytes % 128)
         IN  IF bytes < 128
             THEN [ok |-> TRUE, sub_id |-> next, rest |-> Skip(input, i)]
             ELSE decode_oid_sub_id_from(input, i + 1, next)

decode_oid_sub_id(input) == decode_oid_sub_id_from(input, 1, 0)

\* The while loop of decode_oid over the bytes after the first.
RECURSIVE decode_oid_rest(_, _)
decode_oid_rest(oid, current) ==
    IF Len(current) = 0 THEN [ok |-> TRUE, oid |-> oid]
    ELSE LET s == decode_oid_sub_id(current)
         IN  IF ~s.ok THEN s
             ELSE decode_oid_rest(Append(oid, s.sub_id), s.rest)

\* decode_oid
decode_oid(input) ==
    IF Len(input) = 0 THEN Err(<<"IncompleteData">>)
    ELSE LET b1 == input[1]
         IN  decode_oid_rest(<<b1 \div 40, b1 % 40>>, Skip(input, 1))

\* ------------------------------------------------------------------------
\* BER integer decoding (src/src/ber/decoder.rs)
\* ------------------------------------------------------------------------
\* (value << 8) | (byte as i32) on an i32: the shift drops the top byte and the
\* result is read as two's complement.
ShlOr8(value, byte) ==
    LET w == value % 16777216
    IN  (IF w >= 8388608 THEN w - 16777216 ELSE w) * 256 + byte

\* The for loop of decode_integer.
RECURSIVE FoldSigned(_, _)
FoldSigned(value, input) ==
    IF Len(input) = 0 THEN value
    ELSE FoldSigned(ShlOr8(value, input[1]), Skip(input, 1))

\* decode_integer
decode_integer(input) ==
    IF Len(input) = 0 THEN Err(<<"IncompleteData">>)
    ELSE IF Len(input) > 4
            /\ ~(Len(input) = 5
                 /\ \/ (input[1] = 0 /\ input[2] >= 128)
                    \/ (input[1] = 255 /\ input[2] < 128))
    THEN Err(<<"IntegerOverflow">>)
    ELSE [ok |-> TRUE,
          val |-> FoldSigned(IF input[1] >= 128 THEN -1 ELSE 0, input)]

\* A u32 or a u64 is the sequence of its 16-bit limbs, most significant first:
\* two limbs for a u32, four for a u64.
\* (value << 8) | (byte as u32) on such a value: the shift drops the top byte.
ShlOr8Unsigned(value, byte) ==
    [i \in 1..Len(value) |->
        (value[i] % 256) * 256 + (IF i < Len(value) THEN value[i + 1] \div 256 ELSE byte)]

\* The for loop of decode_unsigned_integer and decode_unsigned_integer64
RECURSIVE FoldUnsigned(_, _)
FoldUnsigned(value, input) ==
    IF Len(input) = 0 THEN value
    ELSE FoldUnsigned(ShlOr8Unsigned(value, input[1]), Skip(input, 1))

\* decode_unsigned_integer
decode_unsigned_integer(input) ==
    IF Len(input) = 0 THEN Err(<<"IncompleteData">>)
    ELSE IF Len(input) > 5 THEN Err(<<"IntegerOverflow">>)
    ELSE IF Len(input) = 5 /\ input[1] # 0 THEN Err(<<"IntegerOverflow">>)
    ELSE [ok |-> TRUE, val |-> FoldUnsigned(<<0, 0>>, input)]

\* decode_unsigned_integer64
decode_unsigned_integer64(input) ==
    IF Len(input) = 0 THEN Err(<<"IncompleteData">>)
    ELSE IF Len(input) > 9 THEN Err(<<"IntegerOverflow">>)
    ELSE IF Len(input) = 9 /\ input[1] # 0 THEN Err(<<"IntegerOverflow">>)
    ELSE [ok |-> TRUE, val |-> FoldUnsigned(<<0, 0, 0, 0>>, input)]

\* ------------------------------------------------------------------------
\* SNMP value model, reading (src/src/snmp/pdu.rs, src/src/snmp/message.rs)
\* ------------------------------------------------------------------------
\* An ObjectSyntax value: the variant's name and its payload as a sequence
\* (the one i32, the limbs of the u32 or u64, the bytes, the OID, or nothing).
Syntax(variant, payload) == [t |-> variant, v |-> payload]

\* ObjectSyntax::from_ber
from_ber(obj) ==
    LET num(variant, d) ==
            IF ~d.ok THEN d ELSE [ok |-> TRUE, value |-> Syntax(variant, <<d.val>>)]
        unsigned(variant, d) ==
            IF ~d.ok THEN d ELSE [ok |-> TRUE, value |-> Syntax(variant, d.val)]
        raw(variant) == [ok |-> TRUE, value |-> Syntax(variant, obj.value)]
        unit(variant) == [ok |-> TRUE, value |-> Syntax(variant, <<>>)]
    IN  CASE obj.tag = Integer -> num("Integer", decode_integer(obj.value))
          [] obj.tag = OctetString -> raw("OctetString")
          [] obj.tag = Null -> unit("Null")
          [] obj.tag = ObjectIdentifier ->
                LET o == decode_oid(obj.value)
                IN  IF ~o.ok THEN o
                    ELSE [ok |-> TRUE, value |-> Syntax("ObjectIdentifier", o.oid)]
          [] obj.tag = IpAddress -> raw("IpAddress")
          [] obj.tag = Counter32 ->
                unsigned("Counter32", decode_unsigned_integer(obj.value))
          [] obj.tag = Gauge32 ->
                unsigned("Gauge32", decode_unsigned_integer(obj.value))
          [] obj.tag = TimeTicks ->
                unsigned("TimeTicks", decode_unsigned_integer(obj.value))
          [] obj.tag = Opaque -> raw("Opaque")
          [] obj.tag = Counter64 ->
                unsigned("Counter64", decode_unsigned_integer64(obj.value))
          [] obj.tag = NoSuchObject -> unit("NoSuchObject")
          [] obj.tag = NoSuchInstance -> unit("NoSuchInstance")
          [] obj.tag = EndOfMib -> unit("EndOfMib")
          [] OTHER -> Err(<<"UnsupportedType", obj.tag>>)

\* parse_varbind is modelled one let binding at a time: each operator below
\* takes the values bound so far and continues to the next binding.

\* parse_varbind from `let value = ObjectSyntax::from_ber(value_obj)?` on
parse_varbind_value(oid, value) ==
    IF ~value.ok THEN value
    ELSE [ok |-> TRUE, varbind |-> [oid |-> oid.oid, value |-> value.value]]

\* parse_varbind_oid without the test of rest
parse_varbind_oid_unchecked(oid, value_obj) ==
    IF ~oid.ok THEN oid
    ELSE IF ~value_obj.ok THEN value_obj
    ELSE parse_varbind_value(oid, from_ber(value_obj))

\* parse_varbind from `let oid = decode_oid(oid_obj.value)?` on
parse_varbind_oid(oid, value_obj) ==
    IF ~oid.ok THEN oid
    ELSE IF ~value_obj.ok THEN value_obj
    ELSE IF Len(value_obj.rest) # 0 THEN Err(<<"TrailingData">>)
    ELSE parse_varbind_value(oid, from_ber(value_obj))

\* parse_varbind from `let (oid_obj, rest_after_oid) = parse_ber_object(obj.value)?` on
parse_varbind_oid_obj(obj, oid_obj) ==
    IF ~oid_obj.ok THEN oid_obj
    ELSE IF oid_obj.tag # ObjectIdentifier
    THEN Err(<<"UnexpectedTag", ObjectIdentifier, obj.tag>>)
    ELSE parse_varbind_oid(decode_oid(oid_obj.value), parse_ber_object(oid_obj.rest))

\* parse_varbind: Ok gives VarBind {oid, value}
parse_varbind(obj) ==
    IF obj.tag # Sequence THEN Err(<<"UnexpectedTag", Sequence, obj.tag>>)
    ELSE parse_varbind_oid_obj(obj, parse_ber_object(obj.value))

\* The while loop of parse_varbind_list.
RECURSIVE parse_varbind_loop(_, _)

\* One turn of the loop from `let varbind = parse_varbind(varbind_object)?` on
parse_varbind_push(varbinds, varbind_object, varbind) ==
    IF ~varbind.ok THEN varbind
    ELSE parse_varbind_loop(Append(varbinds, varbind.varbind), varbind_object.rest)

\* One turn of the loop from `parse_ber_object(current_slice)?` on
parse_varbind_turn(varbinds, varbind_object) ==
    IF ~varbind_object.ok THEN varbind_object
    ELSE parse_varbind_push(varbinds, varbind_object, parse_varbind(varbind_object))

parse_varbind_loop(varbinds, current_slice) ==
    IF Len(current_slice) = 0 THEN [ok |-> TRUE, varbinds |-> varbinds]
    ELSE parse_varbind_turn(varbinds, parse_ber_object(current_slice))

\* parse_varbind_list
parse_varbind_list(obj) ==
    IF obj.tag # Sequence THEN Err(<<"UnexpectedTag", Sequence, obj.tag>>)
    ELSE parse_varbind_loop(<<>>, obj.value)

\* ErrorStatus::try_from with an arm for every i32
ErrorStatus_try_from_any(value) == [ok |-> TRUE, status |-> value]

\* ErrorStatus::try_from(i32)
ErrorStatus_try_from(value) ==
    IF value \in {NoError, TooBig, NoSuchName, BadValue, ReadOnly, GenErr}
    THEN [ok |-> TRUE, status |-> value]
    ELSE Err(<<"InvalidEnumValue", value>>)

\* PduData::Basic and PduData::Bulk
Basic(error_status, error_index) ==
    [shape |-> "Basic", error_status |-> error_status, error_index |-> error_index]

Bulk(non_repeaters, max_repititions) ==
    [shape |-> "Bulk", non_repeaters |-> non_repeaters, max_repititions |-> max_repititions]

\* parse_pdu and parse_message are modelled one let binding at a time, as
\* parse_varbind is.

\* The GetBulkRequest arm from `let max_repititons = decode_integer(..)?` on
parse_pdu_bulk_max_repititons(non_repeaters, max_rep_object, max_repititons) ==
    IF ~max_repititons.ok THEN max_repititons
    ELSE [ok |-> TRUE,
          data |-> Bulk(non_repeaters.val, max_repititons.val),
          rest |-> max_rep_object.rest]

\* The GetBulkRequest arm from `let non_repeaters = decode_integer(..)?` on
parse_pdu_bulk_non_repeaters(non_rep_obj, non_repeaters, max_rep_object) ==
    IF ~non_repeaters.ok THEN non_repeaters
    ELSE IF ~max_rep_object.ok THEN max_rep_object
    ELSE IF max_rep_object.tag # Integer
    THEN Err(<<"UnexpectedTag", Integer, non_rep_obj.tag>>)
    ELSE parse_pdu_bulk_max_repititons(non_repeaters, max_rep_object,
                                       decode_integer(max_rep_object.value))

\* The GetBulkRequest arm from `let (non_rep_obj, r1) = parse_ber_object(..)?` on
parse_pdu_bulk_non_rep_obj(non_rep_obj) ==
    IF ~non_rep_obj.ok THEN non_rep_obj
    ELSE IF non_rep_obj.tag # Integer
    THEN Err(<<"UnexpectedTag", Integer, non_rep_obj.tag>>)
    ELSE parse_pdu_bulk_non_repeaters(non_rep_obj, decode_integer(non_rep_obj.value),
                                      parse_ber_object(non_rep_obj.rest))

\* The arm of parse_pdu's match for GetBulkRequest: Ok gives (PduData, rest)
parse_pdu_bulk(current_slice) ==
    parse_pdu_bulk_non_rep_obj(parse_ber_object(current_slice))

\* The other arm from `let error_index = decode_integer(err_idx_obj.value)?` on
parse_pdu_basic_error_index(error_status, err_idx_obj, error_index) ==
    IF ~error_index.ok THEN error_index
    ELSE [ok |-> TRUE,
          data |-> Basic(error_status.status, error_index.val),
          rest |-> err_idx_obj.rest]

\* The other arm from `let error_status = ErrorStatus::try_from(..)?` on
parse_pdu_basic_error_status(error_status, err_idx_obj) ==
    IF ~error_status.ok THEN error_status
    ELSE IF ~err_idx_obj.ok THEN err_idx_obj
    ELSE IF err_idx_obj.tag # Integer
    THEN Err(<<"UnexpectedTag", Integer, err_idx_obj.tag>>)
    ELSE parse_pdu_basic_error_index(error_status, err_idx_obj,
                                     decode_integer(err_idx_obj.value))

\* The other arm from `let error_status_raw = decode_integer(..)?` on
parse_pdu_basic_error_status_raw(err_stat_obj, error_status_raw) ==
    IF ~error_status_raw.ok THEN error_status_raw
    ELSE parse_pdu_basic_error_status(ErrorStatus_try_from(error_status_raw.val),
                                      parse_ber_object(err_stat_obj.rest))

\* The other arm from `let (err_stat_obj, r1) = parse_ber_object(..)?` on
parse_pdu_basic_err_stat_obj(err_stat_obj) ==
    IF ~err_stat_obj.ok THEN err_stat_obj
    ELSE IF err_stat_obj.tag # Integer
    THEN Err(<<"UnexpectedTag", Integer, err_stat_obj.tag>>)
    ELSE parse_pdu_basic_error_status_raw(err_stat_obj,
                                          decode_integer(err_stat_obj.value))

\* The arm of parse_pdu's match for every other tag: Ok gives (PduData, rest)
parse_pdu_basic(current_slice) ==
    parse_pdu_basic_err_stat_obj(parse_ber_object(current_slice))

\* parse_pdu from `let varbinds = parse_varbind_list(varbind_list_obj)?` on
parse_pdu_varbinds(pdu_tag, request_id, pdu_data, varbind_list_obj, varbinds) ==
    IF ~varbinds.ok THEN varbinds
    ELSE IF Len(varbind_list_obj.rest) # 0 THEN Err(<<"TrailingData">>)
    ELSE [ok |-> TRUE,
          pdu |-> [tag |-> pdu_tag,
                   request_id |-> request_id.val,
                   data |-> pdu_data.data,
                   varbinds |-> varbinds.varbinds]]

\* parse_pdu from `let (varbind_list_obj, rest) = parse_ber_object(current_slice)?` on
parse_pdu_varbind_list_obj(pdu_tag, request_id, pdu_data, varbind_list_obj) ==
    IF ~varbind_list_obj.ok THEN varbind_list_obj
    ELSE parse_pdu_varbinds(pdu_tag, request_id, pdu_data, varbind_list_obj,
                            parse_varbind_list(varbind_list_obj))

\* parse_pdu from `let (pdu_data, rest) = match pdu_tag {..}` on
parse_pdu_pdu_data(pdu_tag, request_id, pdu_data) ==
    IF ~pdu_data.ok THEN pdu_data
    ELSE parse_pdu_varbind_list_obj(pdu_tag, request_id, pdu_data,
                                    parse_ber_object(pdu_data.rest))

\* parse_pdu from `let request_id = decode_integer(req_id_obj.value)?` on
parse_pdu_request_id(pdu_tag, req_id_obj, request_id) ==
    IF ~request_id.ok THEN request_id
    ELSE parse_pdu_pdu_data(pdu_tag, request_id,
                            IF pdu_tag = GetBulkRequest
                            THEN parse_pdu_bulk(req_id_obj.rest)
                            ELSE parse_pdu_basic(req_id_obj.rest))

\* parse_pdu from `let (req_id_obj, rest) = parse_ber_object(current_slice)?` on
parse_pdu_req_id_obj(pdu_tag, req_id_obj) ==
    IF ~req_id_obj.ok THEN req_id_obj
    ELSE IF req_id_obj.tag # Integer
    THEN Err(<<"UnexpectedTag", Integer, req_id_obj.tag>>)
    ELSE parse_pdu_request_id(pdu_tag, req_id_obj, decode_integer(req_id_obj.value))

\* parse_pdu: Ok gives Pdu {tag, request_id, data, varbinds}
parse_pdu(obj) == parse_pdu_req_id_obj(obj.tag, parse_ber_object(obj.value))

\* parse_message from `let pdu = parse_pdu(pdu_object)?` on
parse_message_pdu(version, comm, pdu_object, pdu) ==
    IF ~pdu.ok THEN pdu
    ELSE IF Len(pdu_object.rest) # 0 THEN Err(<<"TrailingData">>)
    ELSE [ok |-> TRUE,
          message |-> [version |-> version.val,
                       community |-> comm.value,
                       pdu |-> pdu.pdu]]

\* parse_message from `let (pdu_object, rest) = parse_ber_object(current_slice)?` on
parse_message_pdu_object(version, comm, pdu_object) ==
    IF ~pdu_object.ok THEN pdu_object
    ELSE parse_message_pdu(version, comm, pdu_object, parse_pdu(pdu_object))

\* parse_message from `let version = decode_integer(ver_obj.value)?` on
parse_message_version(version, comm) ==
    IF ~version.ok THEN version
    ELSE IF ~comm.ok THEN comm
    ELSE IF comm.tag # OctetString
    THEN Err(<<"UnexpectedTag", OctetString, comm.tag>>)
    ELSE parse_message_pdu_object(version, comm, parse_ber_object(comm.rest))

\* parse_message from `let (ver_obj, rest) = parse_ber_object(current_slice)?` on
parse_message_ver_obj(ver_obj) ==
    IF ~ver_obj.ok THEN ver_obj
    ELSE IF ver_obj.tag # Integer THEN Err(<<"UnexpectedTag", Integer, ver_obj.tag>>)
    ELSE parse_message_version(decode_integer(ver_obj.value),
                               parse_ber_object(ver_obj.rest))

\* parse_message from `let (msgobj, rest) = parse_ber_object(inpt)?` on
parse_message_msgobj(msgobj) ==
    IF ~msgobj.ok THEN msgobj
    ELSE IF msgobj.tag # Sequence THEN Err(<<"UnexpectedTag", Sequence, msgobj.tag>>)
    ELSE IF Len(msgobj.rest) # 0 THEN Err(<<"TrailingData">>)
    ELSE parse_message_ver_obj(parse_ber_object(msgobj.value))

\* parse_message: Ok gives SnmpMessage {version, community, pdu}
parse_message(inpt) == parse_message_msgobj(parse_ber_object(inpt))

\* ------------------------------------------------------------------------
\* BER writer (src/src/ber/encoder.rs).  A writer returns the bytes it appends
\* to buf.
\* ------------------------------------------------------------------------
\* i32::to_be_bytes: the four bytes of the two's complement of value
to_be_bytes(value) ==
    <<(value \div 16777216) % 256, (value \div 65536) % 256,
      (value \div 256) % 256, value % 256>>

\* The while loops of encode_integer and encode_unsigned_integer_helper:
\* while start_index < last && bytes[start_index] == pad { start_index += 1 }
\* (start_index counts from 0 as in the source, bytes is indexed from 1)
RECURSIVE SkipPad(_, _, _, _)
SkipPad(bytes, pad, last, start_index) ==
    IF start_index < last /\ bytes[start_index + 1] = pad
    THEN SkipPad(bytes, pad, last, start_index + 1)
    ELSE start_index

\* The minimal big-endian bytes of a usize, as the while loop of encode_length
\* leaves them: empty for 0.
RECURSIVE significant_bytes(_)
significant_bytes(len) ==
    IF len = 0 THEN <<>> ELSE Append(significant_bytes(len \div 256), len % 256)

\* encode_length without the while loop: the long form with four length bytes
encode_length_unstripped(len) ==
    IF len < 128 THEN <<len>> ELSE <<132>> \o to_be_bytes(len)

\* encode_length
encode_length(len) ==
    IF len < 128 THEN <<len>>
    ELSE <<128 + Len(significant_bytes(len))>> \o significant_bytes(len)

\* encode_integer without the two while loops: all four bytes of to_be_bytes
encode_integer_untrimmed(value) == <<Integer, 4>> \o to_be_bytes(value)

\* encode_integer
encode_integer(value) ==
    LET bytes == to_be_bytes(value)
        start_index ==
            IF value > 0
            THEN LET i == SkipPad(bytes, 0, 3, 0)
                 IN  IF bytes[i + 1] >= 128 THEN i - 1 ELSE i
            ELSE IF value < 0
            THEN LET i == SkipPad(bytes, 255, 3, 0)
                 IN  IF bytes[i + 1] < 128 THEN i - 1 ELSE i
            ELSE 3
        value_bytes == Skip(bytes, start_index)
    IN  <<Integer>> \o encode_length(Len(value_bytes)) \o value_bytes

\* encode_octet_string
encode_octet_string(value) ==
    <<OctetString>> \o encode_length(Len(value)) \o value

\* encode_null
encode_null == <<Null, 0>>

\* The byte encode_oid_sub_id stores for a group that is not the last:
\* ((sub_id * 0x7F) | 0x80) as u8
ContinuationByte(sub_id) ==
    LET low == ((sub_id % 256) * 127) % 256
    IN  IF low >= 128 THEN low ELSE low + 128

\* The while loop of encode_oid_sub_id: the bytes stored for the groups above
\* the lowest, most significant first.
RECURSIVE encode_oid_high_groups(_)
encode_oid_high_groups(sub_id) ==
    IF sub_id = 0 THEN <<>>
    ELSE Append(encode_oid_high_groups(sub_id \div 128), ContinuationByte(sub_id))

\* encode_oid_sub_id
encode_oid_sub_id(sub_id) ==
    IF sub_id = 0 THEN <<0>>
    ELSE Append(encode_oid_high_groups(sub_id \div 128), sub_id % 128)

\* encode_oid_sub_id panics when built with overflow checks and the fifth
\* group is stored at bytes[0]: the i -= 1 after it underflows a usize.
encode_oid_sub_id_panics(sub_id, overflow_checks) ==
    overflow_checks /\ sub_id >= 268435456

\* (oid[0] * 40) + oid[1] overflows a u32
FirstByteOverflows(first, second) ==
    \/ first > 107374182
    \/ /\ 107374182 - first <= 53687090
       /\ second > 40 * (107374182 - first) + 15

\* encode_oid panics on oid[0] or oid[1] out of bounds, on an overflow of the
\* first byte's arithmetic or in encode_oid_sub_id (both with overflow checks).
encode_oid_panics(oid, overflow_checks) ==
    \/ Len(oid) < 2
    \/ overflow_checks /\ FirstByteOverflows(oid[1], oid[2])
    \/ \E i \in 3..Len(oid) : encode_oid_sub_id_panics(oid[i], overflow_checks)

\* The for loop of encode_oid over &oid[2..]
RECURSIVE encode_oid_sub_ids(_)
encode_oid_sub_ids(sub_ids) ==
    IF Len(sub_ids) = 0 THEN <<>>
    ELSE encode_oid_sub_id(sub_ids[1]) \o encode_oid_sub_ids(Skip(sub_ids, 1))

\* encode_oid, where it does not panic
encode_oid(oid) ==
    LET b1 == ((oid[1] % 256) * 40 + oid[2]) % 256
        oid_value_buf == <<b1>> \o encode_oid_sub_ids(Skip(oid, 2))
    IN  <<ObjectIdentifier>> \o encode_length(Len(oid_value_buf)) \o oid_value_buf

\* encode_container_with, given the bytes f wrote
encode_container_with(tag, value_buf) ==
    <<tag>> \o encode_length(Len(value_buf)) \o value_buf

\* encode_sequence_with
encode_sequence_with(value_buf) == encode_container_with(Sequence, value_buf)

\* u32::to_be_bytes and u64::to_be_bytes: two bytes for each limb
RECURSIVE unsigned_to_be_bytes(_)
unsigned_to_be_bytes(value) ==
    IF Len(value) = 0 THEN <<>>
    ELSE <<value[1] \div 256, value[1] % 256>> \o unsigned_to_be_bytes(Skip(value, 1))

\* start_index of the two unsigned helpers after `start_index -= 1`, given
\* where the while loop stopped: -1 stands for 0 - 1 on a usize
unsigned_start_index(bytes, start_index) ==
    IF bytes[start_index + 1] >= 128 THEN start_index - 1 ELSE start_index

\* The unsigned helpers panic when the first of all the bytes has its high bit
\* set: start_index is 0 and `start_index -= 1` overflows (with overflow
\* checks), or wraps to usize::MAX and &bytes[start_index..] is out of range
unsigned_helper_panics(bytes) ==
    unsigned_start_index(bytes, SkipPad(bytes, 0, Len(bytes) - 1, 0)) < 0

\* The TLV the two unsigned helpers write, where they do not panic
unsigned_helper_tlv(tag, value_bytes) ==
    <<tag>> \o encode_length(Len(value_bytes)) \o value_bytes

\* encode_unsigned_integer_helper, where it does not panic
encode_unsigned_integer_helper(tag, value) ==
    unsigned_helper_tlv(tag,
        Skip(unsigned_to_be_bytes(value),
             unsigned_start_index(unsigned_to_be_bytes(value),
                                  SkipPad(unsigned_to_be_bytes(value), 0, 3, 0))))

\* encode_unsigned_integer64_helper, where it does not panic
encode_unsigned_integer64_helper(tag, value) ==
    unsigned_helper_tlv(tag,
        Skip(unsigned_to_be_bytes(value),
             unsigned_start_index(unsigned_to_be_bytes(value),
                                  SkipPad(unsigned_to_be_bytes(value), 0, 7, 0))))

\* encode_bytes_with_tag
encode_bytes_with_tag(tag, value) == <<tag>> \o encode_length(Len(value)) \o value

\* ------------------------------------------------------------------------
\* SNMP value model, writing (src/src/snmp/pdu.rs, src/src/snmp/message.rs)
\* ------------------------------------------------------------------------
\* ObjectSyntax::write_to_buf
ObjectSyntax_write_to_buf(value) ==
    CASE value.t = "Integer" -> encode_integer(value.v[1])
      [] value.t = "OctetString" -> encode_octet_string(value.v)
      [] value.t = "Null" -> encode_null
      [] value.t = "ObjectIdentifier" -> encode_oid(value.v)
      [] value.t = "IpAddress" -> encode_bytes_with_tag(IpAddress, value.v)
      [] value.t = "Counter32" -> encode_unsigned_integer_helper(Counter32, value.v)
      [] value.t = "Gauge32" -> encode_unsigned_integer_helper(Gauge32, value.v)
      [] value.t = "TimeTicks" -> encode_unsigned_integer_helper(TimeTicks, value.v)
      [] value.t = "Opaque" -> encode_bytes_with_tag(Opaque, value.v)
      [] value.t = "Counter64" -> encode_unsigned_integer64_helper(Counter64, value.v)
      [] value.t = "NoSuchObject" -> <<NoSuchObject, 0>>
      [] value.t = "NoSuchInstance" -> <<NoSuchInstance, 0>>
      [] value.t = "EndOfMib" -> <<EndOfMib, 0>>

\* ObjectSyntax::write_to_buf panics where the encoder it calls does
ObjectSyntax_write_to_buf_panics(value, overflow_checks) ==
    CASE value.t = "ObjectIdentifier" -> encode_oid_panics(value.v, overflow_checks)
      [] value.t \in {"Counter32", "Gauge32", "TimeTicks", "Counter64"} ->
            unsigned_helper_panics(unsigned_to_be_bytes(value.v))
      [] OTHER -> FALSE

\* VarBind::write_to_buf
VarBind_write_to_buf(varbind) ==
    encode_sequence_with(encode_oid(varbind.oid) \o ObjectSyntax_write_to_buf(varbind.value))

\* The for loop of Pdu::write_to_buf over self.varbinds
RECURSIVE write_varbinds(_)
write_varbinds(varbinds) ==
    IF Len(varbinds) = 0 THEN <<>>
    ELSE VarBind_write_to_buf(varbinds[1]) \o write_varbinds(Skip(varbinds, 1))

\* Pdu::write_to_buf
Pdu_write_to_buf(pdu) ==
    encode_container_with(pdu.tag,
        encode_integer(pdu.request_id)
        \o (IF pdu.data.shape = "Basic"
            THEN encode_integer(pdu.data.error_status)
                 \o encode_integer(pdu.data.error_index)
            ELSE encode_integer(pdu.data.non_repeaters)
                 \o encode_integer(pdu.data.max_repititions))
        \o encode_sequence_with(write_varbinds(pdu.varbinds)))

\* SnmpMessage::to_bytes (through write_to_buf), where it does not panic
to_bytes(message) ==
    encode_sequence_with(encode_integer(message.version)
                         \o encode_octet_string(message.community)
                         \o Pdu_write_to_buf(message.pdu))

\* to_bytes panics when encode_oid panics on a varbind's OID or the writer of
\* a varbind's value panics
to_bytes_panics(message, overflow_checks) ==
    \E i \in 1..Len(message.pdu.varbinds) :
        \/ encode_oid_panics(message.pdu.varbinds[i].oid, overflow_checks)
        \/ ObjectSyntax_write_to_buf_panics(message.pdu.varbinds[i].value,
                                            overflow_checks)

\* ------------------------------------------------------------------------
\* OID strings (src/src/manager/mod.rs)
\* ------------------------------------------------------------------------
Digits == <<"0", "1", "2", "3", "4", "5", "6", "7", "8", "9">>

\* The value of a decimal digit, -1 for any other character
DigitValue(c) ==
    IF \E d \in 1..10 : Digits[d] = c
    THEN (CHOOSE d \in 1..10 : Digits[d] = c) - 1
    ELSE -1

\* str::split('.'): the segments between the dots, empty ones included
RECURSIVE split(_, _, _)
split(str, segment, segments) ==
    IF Len(str) = 0 THEN Append(segments, segment)
    ELSE IF str[1] = "." THEN split(Skip(str, 1), <<>>, Append(segments, segment))
    ELSE split(Skip(str, 1), Append(segment, str[1]), segments)

\* The digit loop of u32::from_str: -1 on a character that is no digit or on
\* a value above u32::MAX
RECURSIVE parse_digits(_, _)
parse_digits(s, acc) ==
    IF Len(s) = 0 THEN acc
    ELSE LET d == DigitValue(s[1])
         IN  IF d < 0 THEN -1
             ELSE IF acc > 429496729 \/ (acc = 429496729 /\ d > 5) THEN -1
             ELSE parse_digits(Skip(s, 1), acc * 10 + d)

\* s.parse::<u32>(): one optional "+", then at least one digit
parse_u32(s) ==
    LET digits == IF Len(s) > 0 /\ s[1] = "+" THEN Skip(s, 1) ELSE s
        n == IF Len(digits) = 0 THEN -1 ELSE parse_digits(digits, 0)
    IN  IF n < 0 THEN Err(<<"InvalidOidString", s>>) ELSE [ok |-> TRUE, val |-> n]

\* The filter, map and collect of parse_oid_string over the segments
RECURSIVE collect_oid(_, _)
collect_oid(segments, oid) ==
    IF Len(segments) = 0 THEN [ok |-> TRUE, oid |-> oid]
    ELSE IF Len(segments[1]) = 0 THEN collect_oid(Skip(segments, 1), oid)
    ELSE LET n == parse_u32(segments[1])
         IN  IF ~n.ok THEN n
             ELSE collect_oid(Skip(segments, 1), Append(oid, n.val))

\* parse_oid_string
parse_oid_string(oid_str) == collect_oid(split(oid_str, <<>>, <<>>), <<>>)

\* u32::to_string
RECURSIVE to_string(_)
to_string(n) ==
    IF n < 10 THEN <<Digits[n + 1]>>
    ELSE Append(to_string(n \div 10), Digits[(n % 10) + 1])

\* oid.iter().map(ToString::to_string).collect::<Vec<_>>().join(".")
RECURSIVE join(_)
join(oid) ==
    IF Len(oid) = 0 THEN <<>>
    ELSE IF Len(oid) = 1 THEN to_string(oid[1])
    ELSE to_string(oid[1]) \o <<".">> \o join(Skip(oid, 1))

\* is_in_subtree with the two slices taken for one another
is_in_subtree_swapped(root, child) ==
    IF Len(root) < Len(child) THEN FALSE
    ELSE Take(root, Len(child)) = child

\* is_in_subtree
is_in_subtree(root, child) ==
    IF Len(child) < Len(root) THEN FALSE
    ELSE Take(child, Len(root)) = root

\* ------------------------------------------------------------------------
\* The transport (src/src/manager/network.rs) and the agent behind it
\* ------------------------------------------------------------------------
\* The datagrams the agent may answer with.  Each is a literal packet, as
\* RAW_PACKET_RESPONSE in tests/parser_integration_test.rs; version 1,
\* community "public", request_id 1.

\* GetResponse, NoError, 1.3.6.1 = Integer 7
ReplyIn ==
    <<48, 34, 2, 1, 1, 4, 6, 112, 117, 98, 108, 105, 99, 162, 21, 2, 1, 1,
      2, 1, 0, 2, 1, 0, 48, 10, 48, 8, 6, 3, 43, 6, 1, 2, 1, 7>>

\* GetResponse, NoError, 1.3.6 = Integer 1
ReplyRoot ==
    <<48, 33, 2, 1, 1, 4, 6, 112, 117, 98, 108, 105, 99, 162, 20, 2, 1, 1,
      2, 1, 0, 2, 1, 0, 48, 9, 48, 7, 6, 2, 43, 6, 2, 1, 1>>

\* GetResponse, NoError, 1.3.6.300 = OctetString 'a'
ReplyLargeSubId ==
    <<48, 35, 2, 1, 1, 4, 6, 112, 117, 98, 108, 105, 99, 162, 22, 2, 1, 1,
      2, 1, 0, 2, 1, 0, 48, 11, 48, 9, 6, 4, 43, 6, 130, 44, 4, 1, 97>>

\* GetResponse, NoError, 1.3.200.1 = Integer 2
ReplyOut ==
    <<48, 35, 2, 1, 1, 4, 6, 112, 117, 98, 108, 105, 99, 162, 22, 2, 1, 1,
      2, 1, 0, 2, 1, 0, 48, 11, 48, 9, 6, 4, 43, 129, 72, 1, 2, 1, 2>>

\* GetResponse, NoError, 1.3.6.1 = endOfMibView
ReplyEndOfMib ==
    <<48, 33, 2, 1, 1, 4, 6, 112, 117, 98, 108, 105, 99, 162, 20, 2, 1, 1,
      2, 1, 0, 2, 1, 0, 48, 9, 48, 7, 6, 3, 43, 6, 1, 130, 0>>

\* GetResponse, NoError, 1.3.6.1 = noSuchObject
ReplyNoSuchObject ==
    <<48, 33, 2, 1, 1, 4, 6, 112, 117, 98, 108, 105, 99, 162, 20, 2, 1, 1,
      2, 1, 0, 2, 1, 0, 48, 9, 48, 7, 6, 3, 43, 6, 1, 128, 0>>

\* GetResponse, NoError, 1.3.6.1 = noSuchInstance
ReplyNoSuchInstance ==
    <<48, 33, 2, 1, 1, 4, 6, 112, 117, 98, 108, 105, 99, 162, 20, 2, 1, 1,
      2, 1, 0, 2, 1, 0, 48, 9, 48, 7, 6, 3, 43, 6, 1, 129, 0>>

\* GetResponse, NoSuchName, index 1, 1.3.6.1 = Null
ReplyNoSuchName ==
    <<48, 33, 2, 1, 1, 4, 6, 112, 117, 98, 108, 105, 99, 162, 20, 2, 1, 1,
      2, 1, 2, 2, 1, 1, 48, 9, 48, 7, 6, 3, 43, 6, 1, 5, 0>>

\* GetResponse, GenErr, index 1, 1.3.200.1 = Null
ReplyGenErr ==
    <<48, 34, 2, 1, 1, 4, 6, 112, 117, 98, 108, 105, 99, 162, 21, 2, 1, 1,
      2, 1, 5, 2, 1, 1, 48, 10, 48, 8, 6, 4, 43, 129, 72, 1, 5, 0>>

\* GetResponse, TooBig, index 0, no varbinds
ReplyTooBig ==
    <<48, 24, 2, 1, 1, 4, 6, 112, 117, 98, 108, 105, 99, 162, 11, 2, 1, 1,
      2, 1, 1, 2, 1, 0, 48, 0>>

\* GetResponse, BadValue, index 1, 1.3.6.1 = Null
ReplyBadValue ==
    <<48, 33, 2, 1, 1, 4, 6, 112, 117, 98, 108, 105, 99, 162, 20, 2, 1, 1,
      2, 1, 3, 2, 1, 1, 48, 9, 48, 7, 6, 3, 43, 6, 1, 5, 0>>

\* GetResponse, ReadOnly, index 2, 1.3.6.1 = Null
ReplyReadOnly ==
    <<48, 33, 2, 1, 1, 4, 6, 112, 117, 98, 108, 105, 99, 162, 20, 2, 1, 1,
      2, 1, 4, 2, 1, 2, 48, 9, 48, 7, 6, 3, 43, 6, 1, 5, 0>>

\* GetResponse, NoError, no varbinds
ReplyEmpty ==
    <<48, 24, 2, 1, 1, 4, 6, 112, 117, 98, 108, 105, 99, 162, 11, 2, 1, 1,
      2, 1, 0, 2, 1, 0, 48, 0>>

\* GetRequest (not a response), NoError, 1.3.6.2 = Integer 3
ReplyTagGetRequest ==
    <<48, 34, 2, 1, 1, 4, 6, 112, 117, 98, 108, 105, 99, 160, 21, 2, 1, 1,
      2, 1, 0, 2, 1, 0, 48, 10, 48, 8, 6, 3, 43, 6, 2, 2, 1, 3>>

\* GetBulkRequest (not a response), non_repeaters 2, max_repetitions 0, 1.3.6.3 = Integer 4
ReplyTagGetBulk ==
    <<48, 34, 2, 1, 1, 4, 6, 112, 117, 98, 108, 105, 99, 165, 21, 2, 1, 1,
      2, 1, 2, 2, 1, 0, 48, 10, 48, 8, 6, 3, 43, 6, 3, 2, 1, 4>>

\* ReplyIn followed by one byte 00
ReplyTrailing ==
    <<48, 34, 2, 1, 1, 4, 6, 112, 117, 98, 108, 105, 99, 162, 21, 2, 1, 1,
      2, 1, 0, 2, 1, 0, 48, 10, 48, 8, 6, 3, 43, 6, 1, 2, 1, 7, 0>>

\* GetResponse, error_status 6, 1.3.6.1 = Null
ReplyBadStatus ==
    <<48, 33, 2, 1, 1, 4, 6, 112, 117, 98, 108, 105, 99, 162, 20, 2, 1, 1,
      2, 1, 6, 2, 1, 0, 48, 9, 48, 7, 6, 3, 43, 6, 1, 5, 0>>

\* GetResponse, NoError, 1.3.6.4 = Integer 5, 1.3.6.5 = Counter32 9
ReplyBatch ==
    <<48, 44, 2, 1, 1, 4, 6, 112, 117, 98, 108, 105, 99, 162, 31, 2, 1, 1,
      2, 1, 0, 2, 1, 0, 48, 20, 48, 8, 6, 3, 43, 6, 4, 2, 1, 5, 48, 8, 6,
      3, 43, 6, 5, 65, 1, 9>>

\* GetResponse, NoError, 1.3.6.6 = Integer 6, 1.3.200.1 = Integer 2, 1.3.6.7 = Integer 8
ReplyBatchOut ==
    <<48, 55, 2, 1, 1, 4, 6, 112, 117, 98, 108, 105, 99, 162, 42, 2, 1, 1,
      2, 1, 0, 2, 1, 0, 48, 31, 48, 8, 6, 3, 43, 6, 6, 2, 1, 6, 48, 9, 6,
      4, 43, 129, 72, 1, 2, 1, 2, 48, 8, 6, 3, 43, 6, 7, 2, 1, 8>>

\* GetResponse, NoError, 1.3.6.8 = Gauge32 1, 1.3.6.8 = endOfMibView, 1.3.6.9 = Integer 0
ReplyBatchEnd ==
    <<48, 53, 2, 1, 1, 4, 6, 112, 117, 98, 108, 105, 99, 162, 40, 2, 1, 1,
      2, 1, 0, 2, 1, 0, 48, 29, 48, 8, 6, 3, 43, 6, 8, 66, 1, 1, 48, 7, 6,
      3, 43, 6, 8, 130, 0, 48, 8, 6, 3, 43, 6, 9, 2, 1, 0>>

\* GetResponse, NoError, 1.3.6.268435456 = Integer 1
ReplyHugeSubId ==
    <<48, 38, 2, 1, 1, 4, 6, 112, 117, 98, 108, 105, 99, 162, 25, 2, 1, 1,
      2, 1, 0, 2, 1, 0, 48, 14, 48, 12, 6, 7, 43, 6, 129, 128, 128, 128, 0,
      2, 1, 1>>

Datagrams ==
    { ReplyIn, ReplyRoot, ReplyLargeSubId, ReplyOut, ReplyEndOfMib,
      ReplyNoSuchObject, ReplyNoSuchInstance, ReplyNoSuchName,
      ReplyGenErr, ReplyTooBig, ReplyBadValue, ReplyReadOnly, ReplyEmpty,
      ReplyTagGetRequest, ReplyTagGetBulk, ReplyTrailing, ReplyBadStatus,
      ReplyBatch, ReplyBatchOut, ReplyBatchEnd }

\* vec![0; 4096]: the receive buffer
ResponseBufLen == 4096

\* What one call of send_and_receive returns: the datagram cut to the buffer,
\* or the error of the bind, of the send, of the recv, or of the timeout.
send_and_receive ==
    { [ok |-> TRUE,
       bytes |-> IF Len(d) > ResponseBufLen THEN Take(d, ResponseBufLen) ELSE d] :
        d \in Datagrams }
    \cup { Err(<<"Io", "Failed to bind to local sockert">>),
           Err(<<"Io", "Failed to send packet">>),
           Err(<<"Io", "Failed to receive data">>),
           Err(<<"Timeout">>) }

\* ------------------------------------------------------------------------
\* Manager (src/src/manager/mod.rs): the code between two suspension points
\* ------------------------------------------------------------------------
\* The SnmpMessage every operation builds: version 1, request_id 1
Request(tag, community, data, varbinds) ==
    [version |-> 1,
     community |-> community,
     pdu |-> [tag |-> tag, request_id |-> 1, data |-> data, varbinds |-> varbinds]]

\* VarBind { oid, value: ObjectSyntax::Null }
NullVarBind(oid) == [oid |-> oid, value |-> Syntax("Null", <<>>)]

\* The value arm of walk and bulk_walk that ends the traversal
IsException(value) == value.t \in {"NoSuchObject", "NoSuchInstance", "EndOfMib"}

\* What an operation returns: Ok(val), Err(err), or the call panics. val is
\* the tuple of the one value returned, err the tuple of the error's parts.
Ok(val) == [kind |-> "Ok", val |-> <<val>>, err |-> <<>>]
Failed(err) == [kind |-> "Err", val |-> <<>>, err |-> err]
Panic == [kind |-> "panic", val |-> <<>>, err |-> <<>>]
NoReturn == [kind |-> "none", val |-> <<>>, err |-> <<>>]

\* get from `let oid = parse_oid_string(oid_str)?` to message.to_bytes()
get_message(community, oid) ==
    IF ~oid.ok THEN oid
    ELSE [ok |-> TRUE,
          message |-> Request(GetRequest, community, Basic(NoError, 0),
                              <<NullVarBind(oid.oid)>>)]

\* get up to message.to_bytes(): the parse of oid_str and the GetRequest
get_request(community, oid_str) == get_message(community, parse_oid_string(oid_str))

\* get from `let response_message = parse_message(..)` on
get_response_message(response_message) ==
    IF ~response_message.ok
    THEN Failed(<<"Failed to parse response", response_message.err>>)
    ELSE LET pdu == response_message.message.pdu
         IN  IF pdu.data.shape = "Basic" /\ pdu.data.error_status # NoError
             THEN Failed(<<"SNMP Error", pdu.data.error_status, pdu.data.error_index>>)
             ELSE IF Len(pdu.varbinds) = 0
             THEN Failed(<<"No VarBinds in response">>)
             ELSE Ok(pdu.varbinds[1])

\* get from the return of send_and_receive on
get_response(r) ==
    IF ~r.ok THEN Failed(r.err) ELSE get_response_message(parse_message(r.bytes))

\* The GetNextRequest of one turn of walk's loop
walk_request(community, current_oid) ==
    Request(GetNextRequest, community, Basic(NoError, 0), <<NullVarBind(current_oid)>>)

\* walk_error_status with the break taken on every status
walk_error_status_break(data) == [kind |-> "break"]

\* walk on a reply whose error_status is not NoError: the silent break on
\* NoSuchName, the error on every other status
walk_error_status(data) ==
    IF data.error_status = NoSuchName
    THEN [kind |-> "break"]
    ELSE [kind |-> "Err",
          err |-> <<"SNMP Error", data.error_status, data.error_index>>]

\* walk_response_varbind without the match on the exception values
walk_response_varbind_no_match(root_id, response_varbind) ==
    IF ~is_in_subtree(root_id, response_varbind.oid) THEN [kind |-> "break"]
    ELSE [kind |-> "push", response_varbind |-> response_varbind]

\* walk from `match response_varbind.value` to the end of the loop's body
walk_response_varbind(root_id, response_varbind) ==
    IF IsException(response_varbind.value) THEN [kind |-> "break"]
    ELSE IF ~is_in_subtree(root_id, response_varbind.oid) THEN [kind |-> "break"]
    ELSE [kind |-> "push", response_varbind |-> response_varbind]

\* One turn of walk's loop from `let response_message = parse_message(..)` on
walk_response_message(root_id, response_message) ==
    IF ~response_message.ok
    THEN [kind |-> "Err", err |-> <<"Failed to parse response", response_message.err>>]
    ELSE LET pdu == response_message.message.pdu
         IN  IF pdu.data.shape = "Basic" /\ pdu.data.error_status # NoError
             THEN walk_error_status(pdu.data)
             ELSE IF Len(pdu.varbinds) = 0
             THEN [kind |-> "Err", err |-> <<"No Varbinds in getnext response">>]
             ELSE walk_response_varbind(root_id, pdu.varbinds[1])

\* walk_response with a break in place of the `?` on send_and_receive
walk_response_break(root_id, r) ==
    IF ~r.ok THEN [kind |-> "break"]
    ELSE walk_response_message(root_id, parse_message(r.bytes))

\* One turn of walk's loop from the return of send_and_receive on: the error
\* returned, the break, or the varbind pushed
walk_response(root_id, r) ==
    IF ~r.ok THEN [kind |-> "Err", err |-> r.err]
    ELSE walk_response_message(root_id, parse_message(r.bytes))

\* The for loop of get_bulk over oid_strs
RECURSIVE request_varbinds_of(_, _)

\* One turn of that loop from `let oid = parse_oid_string(oid_str)?` on
request_varbinds_push(oid_strs, request_varbinds, oid) ==
    IF ~oid.ok THEN oid
    ELSE request_varbinds_of(Skip(oid_strs, 1),
                             Append(request_varbinds, NullVarBind(oid.oid)))

request_varbinds_of(oid_strs, request_varbinds) ==
    IF Len(oid_strs) = 0 THEN [ok |-> TRUE, request_varbinds |-> request_varbinds]
    ELSE request_varbinds_push(oid_strs, request_varbinds, parse_oid_string(oid_strs[1]))

\* get_bulk without `if request_varbinds.is_empty()`
get_bulk_message_unchecked(community, non_repeaters, max_repititions, vbs) ==
    IF ~vbs.ok THEN vbs
    ELSE [ok |-> TRUE,
          message |-> Request(GetBulkRequest, community,
                              Bulk(non_repeaters, max_repititions),
                              vbs.request_varbinds)]

\* get_bulk from `if request_varbinds.is_empty()` to message.to_bytes()
get_bulk_message(community, non_repeaters, max_repititions, vbs) ==
    IF ~vbs.ok THEN vbs
    ELSE IF Len(vbs.request_varbinds) = 0
    THEN Err(<<"GetBulkRequest needs atlaeat one oid">>)
    ELSE [ok |-> TRUE,
          message |-> Request(GetBulkRequest, community,
                              Bulk(non_repeaters, max_repititions),
                              vbs.request_varbinds)]

\* get_bulk up to message.to_bytes()
get_bulk_request(community, non_repeaters, max_repititions, oid_strs) ==
    get_bulk_message(community, non_repeaters, max_repititions,
                     request_varbinds_of(oid_strs, <<>>))

\* get_bulk from `let response_message = parse_message(..)` on
get_bulk_response_message(response_message) ==
    IF ~response_message.ok
    THEN Failed(<<"Faield to parse response", response_message.err>>)
    ELSE LET pdu == response_message.message.pdu
         IN  IF pdu.tag # GetResponse
             THEN Failed(<<"Expewcted GetBulkRequest, got", pdu.tag>>)
             ELSE IF pdu.data.shape = "Bulk"
             THEN Failed(<<"received unexpected GetBulk PDU in response">>)
             ELSE IF pdu.data.error_status # NoError
             THEN Failed(<<"SNMP Error", pdu.data.error_status, pdu.data.error_index>>)
             ELSE Ok(pdu.varbinds)

\* get_bulk from the return of send_and_receive on
get_bulk_response(r) ==
    IF ~r.ok THEN Failed(r.err)
    ELSE get_bulk_response_message(parse_message(r.bytes))

\* Option<Vec<u32>>
None == [some |-> FALSE, oid |-> <<>>]
Some(oid) == [some |-> TRUE, oid |-> oid]

\* bulk_walk_batch with `continue` in place of `return Ok(results)`
RECURSIVE bulk_walk_batch_continue(_, _, _, _)
bulk_walk_batch_continue(root_oid, varbind_batch, results, last_oid_in_batch) ==
    IF Len(varbind_batch) = 0
    THEN [returned |-> FALSE, results |-> results, last_oid_in_batch |-> last_oid_in_batch]
    ELSE LET varbind == varbind_batch[1]
         IN  IF IsException(varbind.value) \/ ~is_in_subtree(root_oid, varbind.oid)
             THEN bulk_walk_batch_continue(root_oid, Skip(varbind_batch, 1),
                                           results, last_oid_in_batch)
             ELSE bulk_walk_batch_continue(root_oid, Skip(varbind_batch, 1),
                                           Append(results, varbind), Some(varbind.oid))

\* The for loop of bulk_walk over varbind_batch: whether it returned, and
\* results and last_oid_in_batch where it stopped
RECURSIVE bulk_walk_batch(_, _, _, _)
bulk_walk_batch(root_oid, varbind_batch, results, last_oid_in_batch) ==
    IF Len(varbind_batch) = 0
    THEN [returned |-> FALSE, results |-> results, last_oid_in_batch |-> last_oid_in_batch]
    ELSE LET varbind == varbind_batch[1]
         IN  IF IsException(varbind.value) \/ ~is_in_subtree(root_oid, varbind.oid)
             THEN [returned |-> TRUE, results |-> results,
                   last_oid_in_batch |-> last_oid_in_batch]
             ELSE bulk_walk_batch(root_oid, Skip(varbind_batch, 1),
                                  Append(results, varbind), Some(varbind.oid))

\* ------------------------------------------------------------------------
\* The state machine: one call of a Manager operation against one target
\* ------------------------------------------------------------------------
\* The requests one call may issue before the model stops following it
MaxRequests == 3

\* The arguments the operations are called with
Communities == { <<112, 117, 98, 108, 105, 99>> }

OidStrings ==
    { <<"1", ".", "3", ".", "6">>,
      <<".", "1", ".", "3", ".", "2", "0", "0">>,
      <<"1", ".", "3", ".", "6", ".", "1">>,
      <<"1">>,
      <<"1", ".", "x">>,
      <<>>,
      <<".">>,
      <<"7", ".", "0">> }

OidStringLists ==
    { <<>>,
      << <<"1", ".", "3", ".", "6">> >>,
      << <<"1", ".", "3", ".", "6">>, <<".", "1", ".", "3", ".", "2", "0", "0">> >>,
      << <<".", "1", ".", "3", ".", "2", "0", "0">>, <<"1", ".", "3", ".", "6">> >>,
      << <<"1", ".", "3", ".", "6">>, <<"1", ".", "x">> >>,
      << <<"1">> >>,
      << <<"1", ".", "3", ".", "6">>, <<>> >>,
      << <<"7", ".", "0">> >> }

NonRepeaters == { 0, 1 }

MaxRepetitions == { 2, 10 }

VARIABLES
    overflow_checks,  \* whether the build panics on arithmetic overflow
    pc,               \* "idle", "wait" (inside send_and_receive) or "done"
    call,             \* the operation called and its arguments
    root_id,          \* walk: root_id; bulk_walk: root_oid
    current_oid,      \* walk: current_oid
    current_oid_str,  \* bulk_walk: current_oid_str
    results,          \* walk, bulk_walk: results
    sent,             \* the packets handed to send_and_receive, in order
    recv,             \* what send_and_receive returned, in order
    ret,              \* what the operation returned
    arg,              \* codec: the value handed to a writer, or what a peer encoded
    wire,             \* codec: the bytes written, or the bytes received
    back,             \* codec: what the reader returned for wire
    command,          \* main: the Get or Walk command of the command line
    tasks,            \* main: the spawned tasks, one for each target
    main_pb,          \* main: the position of the main progress bar
    joined,           \* main: what join_all(tasks).await returned
    printed,          \* main: the (target, result) pairs printed
    exit_code         \* main: the exit status of the process, -1 while it runs

vars == <<overflow_checks, pc, call, root_id, current_oid, current_oid_str,
          results, sent, recv, ret, arg, wire, back,
          command, tasks, main_pb, joined, printed, exit_code>>

locals == <<root_id, current_oid, current_oid_str, results>>

Call(op, community, oid_strs, non_repeaters, max_repititions) ==
    [op |-> op, community |-> community, oid_strs |-> oid_strs,
     non_repeaters |-> non_repeaters, max_repititions |-> max_repititions]

\* The state of the codec's functions and of main, which no Manager operation
\* touches
codec_vars == <<arg, wire, back>>

main_vars == <<command, tasks, main_pb, joined, printed, exit_code>>

manager_vars == <<pc, call, root_id, current_oid, current_oid_str, results,
                  sent, recv, ret>>

\* A value of the codec: what it is and, in a tuple, the value itself
NoValue == [is |-> "none", v |-> <<>>]
Value(is, v) == [is |-> is, v |-> <<v>>]

\* wire: nothing written yet, the bytes written, or the writer panicked
Unwritten == [state |-> "none", bytes |-> <<>>]
Written(bytes) == [state |-> "written", bytes |-> bytes]
Panicked == [state |-> "panic", bytes |-> <<>>]

\* back: nothing read yet, or in a tuple the Result the reader returned
Unread == [state |-> "none", r |-> <<>>]
Read(r) == [state |-> "read", r |-> <<r>>]

\* ProgressBar::new(0)
NoProgress == [length |-> 0, pos |-> 0, finished |-> FALSE]

\* No command parsed, no task spawned
NoCommand == [op |-> "none", community |-> <<>>, oid |-> <<>>, targets |-> <<>>]

\* No Manager operation called
ManagerIdle ==
    /\ pc = "idle"
    /\ call = Call("none", <<>>, <<>>, 0, 0)
    /\ root_id = <<>>
    /\ current_oid = <<>>
    /\ current_oid_str = <<>>
    /\ results = <<>>
    /\ sent = <<>>
    /\ recv = <<>>
    /\ ret = NoReturn

\* No function of the codec called on its own
CodecIdle ==
    /\ arg = NoValue
    /\ wire = Unwritten
    /\ back = Unread

\* main not started
MainIdle ==
    /\ command = NoCommand
    /\ tasks = <<>>
    /\ main_pb = NoProgress
    /\ joined = <<>>
    /\ printed = <<>>
    /\ exit_code = -1

Init ==
    /\ overflow_checks \in BOOLEAN
    /\ ManagerIdle
    /\ CodecIdle
    /\ MainIdle

\* return r
Return(r) ==
    /\ pc' = "done"
    /\ ret' = r
    /\ UNCHANGED sent

\* let packet_bytes = message.to_bytes(); send_and_receive(target, &packet_bytes)
\* up to its suspension, or the panic of to_bytes
Send(message) ==
    IF to_bytes_panics(message, overflow_checks)
    THEN Return(Panic)
    ELSE /\ Len(sent) < MaxRequests
         /\ pc' = "wait"
         /\ sent' = Append(sent, to_bytes(message))
         /\ UNCHANGED ret

\* `?` on the request just built, then Send
TrySend(req) == IF ~req.ok THEN Return(Failed(req.err)) ELSE Send(req.message)

\* Manager::get up to the await
get_call(community, oid_str) ==
    /\ pc = "idle"
    /\ call' = Call("get", community, <<oid_str>>, 0, 0)
    /\ TrySend(get_request(community, oid_str))
    /\ UNCHANGED <<overflow_checks, locals, recv,
                 codec_vars, main_vars>>

\* Manager::get from the await on
get_return(r) ==
    /\ pc = "wait"
    /\ call.op = "get"
    /\ recv' = Append(recv, r)
    /\ Return(get_response(r))
    /\ UNCHANGED <<overflow_checks, call, locals,
                 codec_vars, main_vars>>

\* Manager::walk from `let root_id = parse_oid_string(root_id_str)?` to the
\* first await
walk_root(community, root) ==
    IF ~root.ok
    THEN /\ Return(Failed(root.err))
         /\ UNCHANGED <<root_id, current_oid>>
    ELSE /\ root_id' = root.oid
         /\ current_oid' = root.oid
         /\ Send(walk_request(community, root.oid))

\* Manager::walk up to the first await
walk_call(community, root_id_str) ==
    /\ pc = "idle"
    /\ call' = Call("walk", community, <<root_id_str>>, 0, 0)
    /\ walk_root(community, parse_oid_string(root_id_str))
    /\ UNCHANGED <<overflow_checks, current_oid_str, results, recv,
                 codec_vars, main_vars>>

\* What one turn of walk's loop does with the reply: return the error, break
\* and return results, or push the varbind and send the next request
walk_turn(turn) ==
    CASE turn.kind = "Err" ->
             /\ Return(Failed(turn.err))
             /\ UNCHANGED <<current_oid, results>>
      [] turn.kind = "break" ->
             /\ Return(Ok(results))
             /\ UNCHANGED <<current_oid, results>>
      [] turn.kind = "push" ->
             /\ current_oid' = turn.response_varbind.oid
             /\ results' = Append(results, turn.response_varbind)
             /\ Send(walk_request(call.community, turn.response_varbind.oid))

\* Manager::walk from one await to the next, or to its return
walk_step(r) ==
    /\ pc = "wait"
    /\ call.op = "walk"
    /\ recv' = Append(recv, r)
    /\ walk_turn(walk_response(root_id, r))
    /\ UNCHANGED <<overflow_checks, call, root_id, current_oid_str,
                 codec_vars, main_vars>>

\* Manager::get_bulk up to the await
get_bulk_call(community, non_repeaters, max_repititions, oid_strs) ==
    /\ pc = "idle"
    /\ call' = Call("get_bulk", community, oid_strs, non_repeaters, max_repititions)
    /\ TrySend(get_bulk_request(community, non_repeaters, max_repititions, oid_strs))
    /\ UNCHANGED <<overflow_checks, locals, recv,
                 codec_vars, main_vars>>

\* Manager::get_bulk from the await on
get_bulk_return(r) ==
    /\ pc = "wait"
    /\ call.op = "get_bulk"
    /\ recv' = Append(recv, r)
    /\ Return(get_bulk_response(r))
    /\ UNCHANGED <<overflow_checks, call, locals,
                 codec_vars, main_vars>>

\* self.get_bulk(target, community, 0, max_repititions, &[&current_oid_str]).await?
\* in bulk_walk, up to the await inside get_bulk
bulk_walk_get_bulk(community, max_repititions, oid_str) ==
    TrySend(get_bulk_request(community, 0, max_repititions, <<oid_str>>))

\* Manager::bulk_walk from `let root_oid = parse_oid_string(root_oid_str)?` to
\* the first await
bulk_walk_root(community, root_oid_str, max_repititions, root) ==
    IF ~root.ok
    THEN /\ Return(Failed(root.err))
         /\ UNCHANGED <<root_id, current_oid_str>>
    ELSE /\ root_id' = root.oid
         /\ current_oid_str' = root_oid_str
         /\ bulk_walk_get_bulk(community, max_repititions, root_oid_str)

\* Manager::bulk_walk up to the first await
bulk_walk_call(community, root_oid_str, max_repititions) ==
    /\ pc = "idle"
    /\ call' = Call("bulk_walk", community, <<root_oid_str>>, 0, max_repititions)
    /\ bulk_walk_root(community, root_oid_str, max_repititions,
                      parse_oid_string(root_oid_str))
    /\ UNCHANGED <<overflow_checks, current_oid, results, recv,
                 codec_vars, main_vars>>

\* One turn of bulk_walk's loop after the for loop over the batch: return
\* results, or format the last OID and send the next request
bulk_walk_next(batch) ==
    IF batch.returned \/ ~batch.last_oid_in_batch.some
    THEN /\ Return(Ok(batch.results))
         /\ results' = batch.results
         /\ UNCHANGED current_oid_str
    ELSE /\ results' = batch.results
         /\ current_oid_str' = join(batch.last_oid_in_batch.oid)
         /\ bulk_walk_get_bulk(call.community, call.max_repititions,
                               join(batch.last_oid_in_batch.oid))

\* One turn of bulk_walk's loop from the return of get_bulk on
bulk_walk_turn(varbind_batch) ==
    IF varbind_batch.kind # "Ok"
    THEN /\ Return(varbind_batch)
         /\ UNCHANGED <<current_oid_str, results>>
    ELSE IF Len(varbind_batch.val[1]) = 0
    THEN /\ Return(Ok(results))
         /\ UNCHANGED <<current_oid_str, results>>
    ELSE bulk_walk_next(bulk_walk_batch(root_id, varbind_batch.val[1], results, None))

\* Manager::bulk_walk from one await to the next, or to its return
bulk_walk_step(r) ==
    /\ pc = "wait"
    /\ call.op = "bulk_walk"
    /\ recv' = Append(recv, r)
    /\ bulk_walk_turn(get_bulk_response(r))
    /\ UNCHANGED <<overflow_checks, call, root_id, current_oid,
                 codec_vars, main_vars>>

Next ==
    \/ \E c \in Communities, o \in OidStrings : get_call(c, o)
    \/ \E r \in send_and_receive : get_return(r)
    \/ \E c \in Communities, o \in OidStrings : walk_call(c, o)
    \/ \E r \in send_and_receive : walk_step(r)
    \/ \E c \in Communities, n \in NonRepeaters, m \in MaxRepetitions,
          l \in OidStringLists : get_bulk_call(c, n, m, l)
    \/ \E r \in send_and_receive : get_bulk_return(r)
    \/ \E c \in Communities, o \in OidStrings, m \in MaxRepetitions :
          bulk_walk_call(c, o, m)
    \/ \E r \in send_and_receive : bulk_walk_step(r)

Spec == Init /\ [][Next]_vars

\* ------------------------------------------------------------------------
\* The codec on its own: a value is written and the bytes are read back, or
\* a peer's packet is parsed
\* ------------------------------------------------------------------------
\* The peer's encoder, X.690 BER as an agent emits it (not code of rusnmp):
\* the definite length, short form below 128
PeerLength(n) ==
    IF n < 128 THEN <<n>>
    ELSE IF n < 256 THEN <<129, n>>
    ELSE <<130, n \div 256, n % 256>>

PeerTLV(tag, content) == <<tag>> \o PeerLength(Len(content)) \o content

\* The shortest two's complement of an integer
RECURSIVE PeerTwosComplement(_)
PeerTwosComplement(n) ==
    IF -128 <= n /\ n <= 127 THEN <<n % 256>>
    ELSE Append(PeerTwosComplement(n \div 256), n % 256)

\* The shortest big-endian bytes of an unsigned value given by its limbs,
\* with one 00 in front when the first of them has its high bit set
RECURSIVE PeerStrip(_)
PeerStrip(bytes) ==
    IF Len(bytes) > 1 /\ bytes[1] = 0 THEN PeerStrip(Skip(bytes, 1)) ELSE bytes

RECURSIVE PeerLimbBytes(_)
PeerLimbBytes(limbs) ==
    IF Len(limbs) = 0 THEN <<>>
    ELSE <<limbs[1] \div 256, limbs[1] % 256>> \o PeerLimbBytes(Skip(limbs, 1))

PeerPositive(bytes) == IF bytes[1] >= 128 THEN <<0>> \o bytes ELSE bytes

PeerUnsigned(limbs) == PeerPositive(PeerStrip(PeerLimbBytes(limbs)))

\* A subidentifier in base 128, most significant group first, the high bit
\* set on every group but the last
RECURSIVE PeerGroups(_, _)
PeerGroups(v, high_bit) ==
    IF v < 128 THEN <<v + high_bit>>
    ELSE Append(PeerGroups(v \div 128, 128), (v % 128) + high_bit)

PeerSubId(v) == PeerGroups(v, 0)

RECURSIVE PeerSubIds(_)
PeerSubIds(sub_ids) ==
    IF Len(sub_ids) = 0 THEN <<>>
    ELSE PeerSubId(sub_ids[1]) \o PeerSubIds(Skip(sub_ids, 1))

\* An OID: the first two arcs as the subidentifier 40 * first + second
PeerOid(oid) == PeerSubId(40 * oid[1] + oid[2]) \o PeerSubIds(Skip(oid, 2))

PeerInteger(n) == PeerTLV(Integer, PeerTwosComplement(n))

PeerValue(v) ==
    CASE v.t = "Integer" -> PeerInteger(v.v[1])
      [] v.t = "OctetString" -> PeerTLV(OctetString, v.v)
      [] v.t = "Null" -> PeerTLV(Null, <<>>)
      [] v.t = "ObjectIdentifier" -> PeerTLV(ObjectIdentifier, PeerOid(v.v))
      [] v.t = "IpAddress" -> PeerTLV(IpAddress, v.v)
      [] v.t = "Counter32" -> PeerTLV(Counter32, PeerUnsigned(v.v))
      [] v.t = "Gauge32" -> PeerTLV(Gauge32, PeerUnsigned(v.v))
      [] v.t = "TimeTicks" -> PeerTLV(TimeTicks, PeerUnsigned(v.v))
      [] v.t = "Opaque" -> PeerTLV(Opaque, v.v)
      [] v.t = "Counter64" -> PeerTLV(Counter64, PeerUnsigned(v.v))
      [] v.t = "NoSuchObject" -> PeerTLV(NoSuchObject, <<>>)
      [] v.t = "NoSuchInstance" -> PeerTLV(NoSuchInstance, <<>>)
      [] v.t = "EndOfMib" -> PeerTLV(EndOfMib, <<>>)

\* The bytes a faulty peer leaves at one place of a packet
NoExtra == [place |-> "none", bytes |-> <<>>]
ExtraAt(extra, place) == IF extra.place = place THEN extra.bytes ELSE <<>>

\* The varbinds, the bytes of extra after the value inside the first of them
RECURSIVE PeerVarBinds(_, _)
PeerVarBinds(varbinds, extra) ==
    IF Len(varbinds) = 0 THEN <<>>
    ELSE PeerTLV(Sequence,
                 PeerTLV(ObjectIdentifier, PeerOid(varbinds[1].oid))
                 \o PeerValue(varbinds[1].value)
                 \o ExtraAt(extra, "value"))
         \o PeerVarBinds(Skip(varbinds, 1), NoExtra)

\* The two integers after request_id: error_status and error_index, or
\* non_repeaters and max_repetitions
PeerData(data) ==
    IF data.shape = "Basic"
    THEN PeerInteger(data.error_status) \o PeerInteger(data.error_index)
    ELSE PeerInteger(data.non_repeaters) \o PeerInteger(data.max_repititions)

PeerPdu(pdu, extra) ==
    PeerTLV(pdu.tag,
            PeerInteger(pdu.request_id)
            \o PeerData(pdu.data)
            \o PeerTLV(Sequence, PeerVarBinds(pdu.varbinds, extra))
            \o ExtraAt(extra, "varbinds"))

\* The packet of a message, with the bytes of extra at their place
PeerMessage(message, extra) ==
    PeerTLV(Sequence,
            PeerInteger(message.version)
            \o PeerTLV(OctetString, message.community)
            \o PeerPdu(message.pdu, extra)
            \o ExtraAt(extra, "pdu"))
    \o ExtraAt(extra, "message")

\* A peer that puts another tag at one field position of a message
TagAt(retag, position, tag) == IF retag.position = position THEN retag.tag ELSE tag

\* The varbinds, the first of them with the tag of retag on the varbind or on
\* its OID
PeerRetaggedVarBinds(varbinds, retag) ==
    IF Len(varbinds) = 0 THEN <<>>
    ELSE PeerTLV(TagAt(retag, "varbind", Sequence),
                 PeerTLV(TagAt(retag, "oid", ObjectIdentifier),
                         PeerOid(varbinds[1].oid))
                 \o PeerValue(varbinds[1].value))
         \o PeerVarBinds(Skip(varbinds, 1), NoExtra)

\* The two integers after request_id
PeerRetaggedData(data, retag) ==
    IF data.shape = "Basic"
    THEN PeerTLV(TagAt(retag, "first integer", Integer),
                 PeerTwosComplement(data.error_status))
         \o PeerTLV(TagAt(retag, "second integer", Integer),
                    PeerTwosComplement(data.error_index))
    ELSE PeerTLV(TagAt(retag, "first integer", Integer),
                 PeerTwosComplement(data.non_repeaters))
         \o PeerTLV(TagAt(retag, "second integer", Integer),
                    PeerTwosComplement(data.max_repititions))

\* The packet of a message with the tag of retag at its position
PeerRetagged(message, retag) ==
    PeerTLV(TagAt(retag, "message", Sequence),
            PeerTLV(TagAt(retag, "version", Integer),
                    PeerTwosComplement(message.version))
            \o PeerTLV(TagAt(retag, "community", OctetString), message.community)
            \o PeerTLV(TagAt(retag, "pdu", message.pdu.tag),
                       PeerTLV(TagAt(retag, "request_id", Integer),
                               PeerTwosComplement(message.pdu.request_id))
                       \o PeerRetaggedData(message.pdu.data, retag)
                       \o PeerTLV(TagAt(retag, "varbind list", Sequence),
                                  PeerRetaggedVarBinds(message.pdu.varbinds, retag))))

\* The values the codec is given
I32s ==
    { 0, 1, -1, 127, 128, -128, -129, 255, 256, 32767, 32768, -32768, -32769,
      65535, 8388607, 8388608, -8388608, -8388609, 16777215,
      2147483647, -2147483647, -2147483647 - 1 }

\* u32 values by their limbs: 0, 9, 127, 128, 255, 256, 32768, 65535, 65536,
\* 8388608, 2^31 - 1, 2^31, 2^31 + 1, 2^32 - 1
U32s ==
    { <<0, 0>>, <<0, 9>>, <<0, 127>>, <<0, 128>>, <<0, 255>>, <<0, 256>>,
      <<0, 32768>>, <<0, 65535>>, <<1, 0>>, <<128, 0>>, <<32767, 65535>>,
      <<32768, 0>>, <<32768, 1>>, <<65535, 65535>> }

\* u64 values by their limbs: 0, 9, 128, 2^31, 2^32 - 1, 2^32, 2^39, 2^63 - 1,
\* 2^63, 2^64 - 1
U64s ==
    { <<0, 0, 0, 0>>, <<0, 0, 0, 9>>, <<0, 0, 0, 128>>, <<0, 0, 32768, 0>>,
      <<0, 0, 65535, 65535>>, <<0, 1, 0, 0>>, <<0, 128, 0, 0>>,
      <<32767, 65535, 65535, 65535>>, <<32768, 0, 0, 0>>,
      <<65535, 65535, 65535, 65535>> }

Public == <<112, 117, 98, 108, 105, 99>>

\* Byte strings: empty, short, and of 130 bytes (the long form of the length)
ByteStrings == { <<>>, <<0>>, <<255, 128>>, <<10, 0, 0, 1>>, [i \in 1..130 |-> i] }

\* OIDs: the root arcs, subidentifiers of one to four groups of 7 bits, and
\* two OIDs of fewer than two arcs
Oids ==
    { <<1, 3>>, <<0, 0>>, <<0, 39>>, <<1, 39, 5>>, <<2, 39>>, <<2, 40>>, <<2, 100, 3>>,
      <<1, 3, 6>>, <<1, 3, 0>>, <<1, 3, 127>>, <<1, 3, 128>>, <<1, 3, 200>>,
      <<1, 3, 16383>>, <<1, 3, 16384>>, <<1, 3, 6, 1, 4, 1, 8072>>,
      <<1, 3, 6, 1, 2, 1, 1, 1, 0>>, <<1, 3, 2097152>>, <<1, 3, 268435455>>,
      <<1, 3, 6, 300, 1>>, <<1>>, <<>> }

ObjectSyntaxes ==
    { Syntax("Integer", <<n>>) : n \in I32s }
    \cup { Syntax(t, n) : t \in {"Counter32", "Gauge32", "TimeTicks"}, n \in U32s }
    \cup { Syntax("Counter64", n) : n \in U64s }
    \cup { Syntax(t, b) : t \in {"OctetString", "IpAddress", "Opaque"}, b \in ByteStrings }
    \cup { Syntax("ObjectIdentifier", o) : o \in { x \in Oids : Len(x) >= 2 } }
    \cup { Syntax(t, <<>>) : t \in {"Null", "NoSuchObject", "NoSuchInstance", "EndOfMib"} }

VarBind(oid, v) == [oid |-> oid, value |-> v]

VarBindLists ==
    { <<>>,
      << VarBind(<<1, 3, 6, 1, 2, 1, 1, 1, 0>>, Syntax("Null", <<>>)) >>,
      << VarBind(<<1, 3, 6, 1>>, Syntax("Integer", <<-129>>)) >>,
      << VarBind(<<1, 3, 6, 1, 4, 1, 8072>>, Syntax("OctetString", <<97, 98>>)) >>,
      << VarBind(<<1, 3, 6, 1>>, Syntax("Counter32", <<0, 9>>)),
         VarBind(<<1, 3, 6, 2>>, Syntax("Gauge32", <<32768, 0>>)) >>,
      << VarBind(<<1, 3, 6, 1>>, Syntax("TimeTicks", <<1, 0>>)),
         VarBind(<<1, 3, 6, 2>>, Syntax("Counter64", <<0, 1, 0, 0>>)) >>,
      << VarBind(<<2, 40, 1>>, Syntax("Integer", <<1>>)) >>,
      << VarBind(<<1, 3, 6, 1>>, Syntax("ObjectIdentifier", <<1, 3, 6, 1, 4, 1>>)),
         VarBind(<<1, 3, 6, 2>>, Syntax("IpAddress", <<10, 0, 0, 1>>)),
         VarBind(<<1, 3, 6, 3>>, Syntax("Opaque", <<>>)) >>,
      << VarBind(<<1, 3, 6, 1>>, Syntax("NoSuchObject", <<>>)),
         VarBind(<<1, 3, 6, 2>>, Syntax("NoSuchInstance", <<>>)),
         VarBind(<<1, 3, 6, 3>>, Syntax("EndOfMib", <<>>)) >>,
      << VarBind(<<1, 3, 6, 1>>, Syntax("Counter64", <<32768, 0, 0, 0>>)) >>,
      << VarBind(<<0, 0>>, Syntax("Integer", <<2147483647>>)) >> }

PduTags == { GetRequest, GetNextRequest, GetResponse, SetRequest, GetBulkRequest }

\* The PduData of a valid Pdu with this tag
PduDatas(tag) ==
    IF tag = GetBulkRequest
    THEN { Bulk(0, 10), Bulk(1, 2147483647), Bulk(-1, 0) }
    ELSE { Basic(NoError, 0), Basic(NoSuchName, 300), Basic(GenErr, 1) }

\* error_status values no ErrorStatus has
BadStatuses == { 6, -1, 300 }

SnmpMessage(version, community, tag, request_id, data, varbinds) ==
    [version |-> version,
     community |-> community,
     pdu |-> [tag |-> tag, request_id |-> request_id, data |-> data,
              varbinds |-> varbinds]]

\* The valid messages: the shape of the data matches the tag
SnmpMessages ==
    UNION { { SnmpMessage(h[1], h[2], tag, id, data, varbinds) :
                h \in {<<0, <<>>>>, <<1, Public>>}, id \in {1, -129},
                data \in PduDatas(tag), varbinds \in VarBindLists } :
            tag \in PduTags }

\* The messages with an error_status no ErrorStatus has, under the tags
\* whose second integer is an error_status
BadStatusMessages ==
    { SnmpMessage(1, Public, tag, 1, Basic(status, 0), varbinds) :
        tag \in PduTags \ {GetBulkRequest}, status \in BadStatuses,
        varbinds \in { <<>>, << VarBind(<<1, 3, 6, 1>>, Syntax("Null", <<>>)) >> } }

\* The bytes a faulty peer leaves, and where
Extras ==
    { NoExtra }
    \cup { [place |-> place, bytes |-> bytes] :
             place \in {"message", "pdu", "varbinds", "value"},
             bytes \in { <<0>>, <<5, 0>> } }

\* What a peer sends: a message and the bytes left over in its packet
Packet(message, extra) == [message |-> message, extra |-> extra]

Packets ==
    { Packet(m, x) : m \in SnmpMessages \cup BadStatusMessages, x \in Extras }

\* The field positions of a message and the tag each is to carry; 0 at the
\* PDU wrapper, which is to carry one of the tags 0xA0..0xA7
Positions ==
    { <<"message", Sequence>>, <<"version", Integer>>, <<"community", OctetString>>,
      <<"pdu", 0>>, <<"request_id", Integer>>, <<"first integer", Integer>>,
      <<"second integer", Integer>>, <<"varbind list", Sequence>>,
      <<"varbind", Sequence>>, <<"oid", ObjectIdentifier>> }

\* The tags a faulty peer puts at a position: tags from_u8 knows, none of
\* them the one the position is to carry
WrongTags(expected) ==
    IF expected = 0
    THEN { Integer, OctetString, Sequence, EndOfMib }
    ELSE { Integer, OctetString, Null, ObjectIdentifier, Sequence, Counter32,
           GetResponse, EndOfMib } \ {expected}

\* A valid message and the one tag that is wrong in its packet
RetaggedAt(pdu_tag, varbinds, position, expected) ==
    { [message |-> SnmpMessage(1, Public, pdu_tag, 1,
                               IF pdu_tag = GetBulkRequest
                               THEN Bulk(0, 10) ELSE Basic(NoError, 0),
                               varbinds),
       position |-> position, expected |-> expected, tag |-> wrong] :
        wrong \in WrongTags(expected) }

Retagged ==
    UNION { RetaggedAt(x[1], x[2], x[3][1], x[3][2]) :
              x \in { GetRequest, GetResponse, GetBulkRequest }
                    \X { << VarBind(<<1, 3, 6, 1>>, Syntax("Integer", <<-129>>)) >>,
                         << VarBind(<<1, 3, 6, 1>>, Syntax("Counter32", <<0, 9>>)),
                            VarBind(<<1, 3, 6, 2>>, Syntax("Gauge32", <<32768, 0>>)) >> }
                    \X Positions }

\* The value bytes of an INTEGER a peer may send: none, one to four, five
\* with and without a pad byte that is needed, six
IntegerBytes ==
    { <<>>, <<0>>, <<127>>, <<128>>, <<255>>, <<0, 128>>, <<255, 127>>,
      <<0, 0, 1>>, <<255, 255>>, <<127, 255, 255, 255>>, <<128, 0, 0, 0>>,
      <<0, 0, 0, 0>>, <<255, 255, 255, 255>>,
      <<0, 128, 0, 0, 0>>, <<0, 255, 255, 255, 255>>, <<255, 127, 255, 255, 255>>,
      <<255, 0, 0, 0, 0>>, <<0, 127, 255, 255, 255>>, <<255, 128, 0, 0, 0>>,
      <<1, 0, 0, 0, 0>>, <<0, 0, 0, 0, 1>>, <<128, 0, 0, 0, 0>>,
      <<0, 0, 0, 0, 0, 1>>, <<0, 128, 0, 0, 0, 0>>, <<255, 255, 255, 255, 255, 255>> }

\* The lengths encode_length is given, and the bytes that follow the length
\* octets in the input of parse_length
Lengths ==
    { [len |-> n, tail |-> t] :
        n \in { 0, 1, 127, 128, 129, 255, 256, 257, 65535, 65536, 16777215,
                16777216, 2147483647 },
        t \in { <<>>, <<0>>, <<5, 0>>, <<130, 1>> } }

\* Length octets a peer may send: the indefinite and the reserved first
\* octet, long forms of one to nine length bytes, long forms cut short
LengthBytes ==
    { <<128>>, <<128, 0, 0>>, <<255>>, <<255, 1, 2, 3>>,
      <<129, 5>>, <<129, 128, 7>>, <<130, 1, 0, 9>>, <<132, 0, 0, 1, 0>>,
      <<136, 0, 0, 0, 0, 0, 0, 1, 0, 7>>,
      <<137, 0, 0, 0, 0, 0, 0, 0, 0, 1>>, <<137, 0, 0, 0, 0, 0, 0, 0, 0, 1, 0>>,
      <<254, 1>>, <<129>>, <<130, 1>>, <<136, 0, 0, 0, 0, 0, 0, 1>>, <<131, 1, 0>> }

\* encode_length on a length, into a buffer the tail is then written to
encode_length_call ==
    /\ arg.is = "usize"
    /\ wire.state = "none"
    /\ wire' = Written(encode_length(arg.v[1].len) \o arg.v[1].tail)
    /\ UNCHANGED <<overflow_checks, arg, back, manager_vars, main_vars>>

\* parse_length on the bytes written, or on the length octets received
parse_length_call ==
    /\ arg.is \in {"usize", "length bytes"}
    /\ wire.state = "written"
    /\ back.state = "none"
    /\ back' = Read(parse_length(wire.bytes))
    /\ UNCHANGED <<overflow_checks, arg, wire, manager_vars, main_vars>>

\* SnmpMessage::to_bytes on a message
to_bytes_call ==
    /\ arg.is = "SnmpMessage"
    /\ wire.state = "none"
    /\ wire' = IF to_bytes_panics(arg.v[1], overflow_checks)
               THEN Panicked ELSE Written(to_bytes(arg.v[1]))
    /\ UNCHANGED <<overflow_checks, arg, back, manager_vars, main_vars>>

\* parse_message on the bytes written, or on a peer's packet
parse_message_call ==
    /\ arg.is \in {"SnmpMessage", "Packet", "Retagged"}
    /\ wire.state = "written"
    /\ back.state = "none"
    /\ back' = Read(parse_message(wire.bytes))
    /\ UNCHANGED <<overflow_checks, arg, wire, manager_vars, main_vars>>

\* ObjectSyntax::write_to_buf on a value
write_to_buf_call ==
    /\ arg.is = "ObjectSyntax"
    /\ wire.state = "none"
    /\ wire' = IF ObjectSyntax_write_to_buf_panics(arg.v[1], overflow_checks)
               THEN Panicked ELSE Written(ObjectSyntax_write_to_buf(arg.v[1]))
    /\ UNCHANGED <<overflow_checks, arg, back, manager_vars, main_vars>>

\* ObjectSyntax::from_ber on the object parse_ber_object read: Ok gives the
\* value and the bytes left over
from_ber_rest(obj, v) ==
    IF ~v.ok THEN v ELSE [ok |-> TRUE, value |-> v.value, rest |-> obj.rest]

from_ber_object(obj) == IF ~obj.ok THEN obj ELSE from_ber_rest(obj, from_ber(obj))

\* parse_ber_object and ObjectSyntax::from_ber on the bytes written
from_ber_call ==
    /\ arg.is = "ObjectSyntax"
    /\ wire.state = "written"
    /\ back.state = "none"
    /\ back' = Read(from_ber_object(parse_ber_object(wire.bytes)))
    /\ UNCHANGED <<overflow_checks, arg, wire, manager_vars, main_vars>>

\* encode_oid on an OID
encode_oid_call ==
    /\ arg.is = "oid"
    /\ wire.state = "none"
    /\ wire' = IF encode_oid_panics(arg.v[1], overflow_checks)
               THEN Panicked ELSE Written(encode_oid(arg.v[1]))
    /\ UNCHANGED <<overflow_checks, arg, back, manager_vars, main_vars>>

\* decode_oid on the value bytes of the object read
decode_oid_object(obj) == IF ~obj.ok THEN obj ELSE decode_oid(obj.value)

\* parse_ber_object and decode_oid on the bytes written
decode_oid_call ==
    /\ arg.is = "oid"
    /\ wire.state = "written"
    /\ back.state = "none"
    /\ back' = Read(decode_oid_object(parse_ber_object(wire.bytes)))
    /\ UNCHANGED <<overflow_checks, arg, wire, manager_vars, main_vars>>

\* encode_integer on an i32
encode_integer_call ==
    /\ arg.is = "i32"
    /\ wire.state = "none"
    /\ wire' = Written(encode_integer(arg.v[1]))
    /\ UNCHANGED <<overflow_checks, arg, back, manager_vars, main_vars>>

\* decode_integer on the value bytes of the object read
decode_integer_object(obj) == IF ~obj.ok THEN obj ELSE decode_integer(obj.value)

\* parse_ber_object and decode_integer on the bytes written, or
\* decode_integer on the value bytes received
decode_integer_call ==
    /\ arg.is \in {"i32", "integer bytes"}
    /\ wire.state = "written"
    /\ back.state = "none"
    /\ back' = Read(IF arg.is = "i32"
                    THEN decode_integer_object(parse_ber_object(wire.bytes))
                    ELSE decode_integer(wire.bytes))
    /\ UNCHANGED <<overflow_checks, arg, wire, manager_vars, main_vars>>

\* A value to write, or a packet received
CodecInit ==
    /\ overflow_checks \in BOOLEAN
    /\ ManagerIdle
    /\ MainIdle
    /\ back = Unread
    /\ \/ /\ wire = Unwritten
          /\ \/ \E m \in SnmpMessages : arg = Value("SnmpMessage", m)
             \/ \E v \in ObjectSyntaxes : arg = Value("ObjectSyntax", v)
             \/ \E o \in Oids : arg = Value("oid", o)
             \/ \E n \in I32s : arg = Value("i32", n)
             \/ \E l \in Lengths : arg = Value("usize", l)
       \/ \E p \in Packets :
             /\ arg = Value("Packet", p)
             /\ wire = Written(PeerMessage(p.message, p.extra))
       \/ \E c \in LengthBytes :
             /\ arg = Value("length bytes", c)
             /\ wire = Written(c)
       \/ \E c \in IntegerBytes :
             /\ arg = Value("integer bytes", c)
             /\ wire = Written(c)
       \/ \E p \in Retagged :
             /\ arg = Value("Retagged", p)
             /\ wire = Written(PeerRetagged(p.message, p))

CodecNext ==
    \/ to_bytes_call
    \/ parse_message_call
    \/ write_to_buf_call
    \/ from_ber_call
    \/ encode_oid_call
    \/ decode_oid_call
    \/ encode_integer_call
    \/ decode_integer_call
    \/ encode_length_call
    \/ parse_length_call

CodecSpec == CodecInit /\ [][CodecNext]_vars

\* ------------------------------------------------------------------------
\* main (src/src/main.rs): one task per target, joined and printed
\*
\* The spawned tasks run on the runtime's threads while main goes on spawning;
\* a task runs from one await to the next.  A panic unwinds its task alone and
\* comes back from the JoinHandle as an Err.
\* ------------------------------------------------------------------------

\* The command lines: Get or Walk, the OID, one or two targets
Commands ==
    { [op |-> op, community |-> c, oid |-> o, targets |-> t] :
        op \in {"Get", "Walk"}, c \in Communities,
        o \in { <<"1", ".", "3", ".", "6">>, <<"1", ".", "x">> },
        t \in { <<"a">>, <<"a", "b">> } }

\* What send_and_receive returns to a task: the agent of a target answers a
\* bounded number of requests and then is silent
task_send_and_receive(received) ==
    IF Len(received) + 1 < MaxRequests
    THEN { [ok |-> TRUE, bytes |-> d] :
             d \in { ReplyIn, ReplyOut, ReplyGenErr, ReplyHugeSubId, ReplyTrailing } }
         \cup { Err(<<"Timeout">>) }
    ELSE { Err(<<"Timeout">>) }

\* The async block handed to tokio::spawn, not polled yet
Spawned ==
    [pc |-> "spawned", root_id |-> <<>>, current_oid |-> <<>>,
     current_oid_str |-> <<>>, results |-> <<>>,
     sent |-> <<>>, recv |-> <<>>, ret |-> NoReturn]

\* Return, in a task
task_Return(task, r) == [task EXCEPT !.pc = "done", !.ret = r]

\* Send, in a task
task_Send(task, message) ==
    IF to_bytes_panics(message, overflow_checks)
    THEN task_Return(task, Panic)
    ELSE [task EXCEPT !.pc = "wait", !.sent = Append(@, to_bytes(message))]

\* TrySend, in a task
task_TrySend(task, req) ==
    IF ~req.ok THEN task_Return(task, Failed(req.err)) ELSE task_Send(task, req.message)

\* .map(|vb| vec![vb])
map_vec(result) == IF result.kind = "Ok" THEN Ok(<<result.val[1]>>) ELSE result

\* manager.get(..) in a task, up to the await
task_get_call(task, community, oid_str) ==
    task_TrySend(task, get_request(community, oid_str))

\* manager.get(..).await.map(..) in a task, from the await on
task_get_return(task, r) ==
    task_Return([task EXCEPT !.recv = Append(@, r)], map_vec(get_response(r)))

\* manager.walk(..) in a task, up to the first await
task_walk_call(task, community, root) ==
    IF ~root.ok THEN task_Return(task, Failed(root.err))
    ELSE task_Send([task EXCEPT !.root_id = root.oid, !.current_oid = root.oid],
                   walk_request(community, root.oid))

\* walk_turn, in a task
task_walk_turn(task, community, turn) ==
    CASE turn.kind = "Err" -> task_Return(task, Failed(turn.err))
      [] turn.kind = "break" -> task_Return(task, Ok(task.results))
      [] turn.kind = "push" ->
             task_Send([task EXCEPT !.current_oid = turn.response_varbind.oid,
                                    !.results = Append(@, turn.response_varbind)],
                       walk_request(community, turn.response_varbind.oid))

\* manager.walk(..) in a task, from one await to the next or to its return
task_walk_step(task, community, r) ==
    task_walk_turn([task EXCEPT !.recv = Append(@, r)], community,
                   walk_response(task.root_id, r))

\* main_pb.inc(1), which a task reaches when the Manager has returned
main_pb_inc(pb, task) ==
    IF task.pc = "done" /\ task.ret.kind # "panic"
    THEN [pb EXCEPT !.pos = @ + 1] ELSE pb

\* What awaiting the JoinHandle of a finished task gives
JoinHandle_await(task) ==
    IF task.ret.kind = "panic" THEN [kind |-> "JoinError", result |-> NoReturn]
    ELSE [kind |-> "Ok", result |-> task.ret]

\* join_all with the outputs in the reverse of the order of the handles
join_all_reversed(handles) ==
    [i \in 1..Len(handles) |-> JoinHandle_await(handles[Len(handles) + 1 - i])]

\* join_all(tasks): the outputs in the order of the handles
join_all(handles) ==
    [i \in 1..Len(handles) |-> JoinHandle_await(handles[i])]

\* One turn of the loop that prints: the header with the target and the arm
\* of the match
print_result(target, result) ==
    IF result.kind = "JoinError"
    THEN [target |-> target, line |-> "Task Panicked", varbinds |-> <<>>, err |-> <<>>]
    ELSE IF result.result.kind = "Ok"
    THEN [target |-> target, line |-> "Success",
          varbinds |-> result.result.val[1], err |-> <<>>]
    ELSE [target |-> target, line |-> "Error", varbinds |-> <<>>,
          err |-> result.result.err]

\* main from the match on cli.command to the for loop: main_pb.set_length
main_command ==
    /\ command.op \in {"Get", "Walk"}
    /\ main_pb.length = 0
    /\ main_pb' = [main_pb EXCEPT !.length = Len(command.targets)]
    /\ UNCHANGED <<overflow_checks, command, tasks, joined, printed, exit_code,
                 manager_vars, codec_vars>>

\* One turn of `for target in &targets`: tasks.push(tokio::spawn(..))
main_spawn ==
    /\ main_pb.length > 0
    /\ Len(tasks) < Len(command.targets)
    /\ tasks' = Append(tasks, Spawned)
    /\ UNCHANGED <<overflow_checks, command, main_pb, joined, printed, exit_code,
                 manager_vars, codec_vars>>

\* The first poll of a task: up to the first await inside the Manager, or to
\* the end of the task
task_poll(task) ==
    IF command.op = "Get"
    THEN task_get_call(task, command.community, command.oid)
    ELSE task_walk_call(task, command.community, parse_oid_string(command.oid))

\* A task woken by the return of send_and_receive: up to the next await, or
\* to the end of the task
task_wake(task, r) ==
    IF command.op = "Get"
    THEN task_get_return(task, r)
    ELSE task_walk_step(task, command.community, r)

\* The runtime polls a spawned task for the first time
task_call(i) ==
    /\ i \in 1..Len(tasks)
    /\ tasks[i].pc = "spawned"
    /\ tasks' = [tasks EXCEPT ![i] = task_poll(tasks[i])]
    /\ main_pb' = main_pb_inc(main_pb, task_poll(tasks[i]))
    /\ UNCHANGED <<overflow_checks, command, joined, printed, exit_code,
                 manager_vars, codec_vars>>

\* send_and_receive returns in a task and the runtime polls it
task_step(i, r) ==
    /\ i \in 1..Len(tasks)
    /\ tasks[i].pc = "wait"
    /\ tasks' = [tasks EXCEPT ![i] = task_wake(tasks[i], r)]
    /\ main_pb' = main_pb_inc(main_pb, task_wake(tasks[i], r))
    /\ UNCHANGED <<overflow_checks, command, joined, printed, exit_code,
                 manager_vars, codec_vars>>

\* join_all(tasks).await returns when every task has ended; then
\* main_pb.finish_with_message
main_join_all ==
    /\ main_pb.length > 0
    /\ ~main_pb.finished
    /\ Len(tasks) = Len(command.targets)
    /\ \A i \in 1..Len(tasks) : tasks[i].pc = "done"
    /\ joined' = join_all(tasks)
    /\ main_pb' = [main_pb EXCEPT !.finished = TRUE]
    /\ UNCHANGED <<overflow_checks, command, tasks, printed, exit_code,
                 manager_vars, codec_vars>>

\* One turn of `for (target, result) in targets.iter().zip(results)`
main_print ==
    /\ main_pb.finished
    /\ Len(printed) < Len(command.targets)
    /\ Len(printed) < Len(joined)
    /\ printed' = Append(printed, print_result(command.targets[Len(printed) + 1],
                                               joined[Len(printed) + 1]))
    /\ UNCHANGED <<overflow_checks, command, tasks, main_pb, joined, exit_code,
                 manager_vars, codec_vars>>

\* main from the end of the loop that prints: Ok(()), which the runtime's
\* Termination turns into the exit status 0
main_return ==
    /\ main_pb.finished
    /\ Len(printed) = Len(command.targets)
    /\ exit_code = -1
    /\ exit_code' = 0
    /\ UNCHANGED <<overflow_checks, command, tasks, main_pb, joined, printed,
                 manager_vars, codec_vars>>

MainInit ==
    /\ overflow_checks \in BOOLEAN
    /\ ManagerIdle
    /\ CodecIdle
    /\ command \in Commands
    /\ tasks = <<>>
    /\ main_pb = NoProgress
    /\ joined = <<>>
    /\ printed = <<>>
    /\ exit_code = -1

\* Some spawned task is polled for the first time
task_calls == \E i \in 1..Len(tasks) : task_call(i)

\* Some send_and_receive returns and its task is polled
task_steps ==
    \E i \in 1..Len(tasks) : \E r \in task_send_and_receive(tasks[i].recv) :
        task_step(i, r)

MainNext ==
    \/ main_command
    \/ main_spawn
    \/ task_calls
    \/ task_steps
    \/ main_join_all
    \/ main_print
    \/ main_return

\* task_calls is enabled
SomeSpawned == \E i \in 1..Len(tasks) : tasks[i].pc = "spawned"

\* main runs on, every send_and_receive returns within its timeout, and the
\* runtime polls every task that is ready: weak fairness of the steps, that
\* of task_calls written with its enabling condition
MainFairness ==
    /\ WF_vars(main_command \/ main_spawn \/ task_steps \/ main_join_all
                  \/ main_print \/ main_return)
    /\ []<>(~SomeSpawned) \/ []<><<task_calls>>_vars

MainSpec == MainInit /\ [][MainNext]_vars /\ MainFairness

\* ------------------------------------------------------------------------
\* main (src/src/main.rs): the Bulk and BulkWalk arms, which await the Manager
\* in main itself, and the exit status of the process
\* ------------------------------------------------------------------------

\* The command lines of the four subcommands.  Bulk is given one OID and
\* BulkWalk its root; non_repeaters and max_repititions are the defaults.
CliCommands ==
    Commands
    \cup { [op |-> op, community |-> c, oid |-> o, targets |-> <<"a">>] :
             op \in {"Bulk", "BulkWalk"}, c \in Communities,
             o \in { <<"1", ".", "3", ".", "6">>, <<"1", ".", "x">> } }

\* default_value_t of non_repeaters, of max_repititions and of max_repetitions
DefaultNonRepeaters == 0
DefaultMaxRepititions == 10
DefaultMaxRepetitions == 20

\* manager.get_bulk(..) in main, up to the await
task_get_bulk_call(task, community, non_repeaters, max_repititions, oid_strs) ==
    task_TrySend(task, get_bulk_request(community, non_repeaters, max_repititions,
                                        oid_strs))

\* manager.get_bulk(..) in main, from the await on
task_get_bulk_return(task, r) ==
    task_Return([task EXCEPT !.recv = Append(@, r)], get_bulk_response(r))

\* bulk_walk_get_bulk, in main
task_bulk_walk_get_bulk(task, community, max_repititions, oid_str) ==
    task_TrySend(task, get_bulk_request(community, 0, max_repititions, <<oid_str>>))

\* manager.bulk_walk(..) in main, up to the first await
task_bulk_walk_call(task, community, root_oid_str, max_repititions, root) ==
    IF ~root.ok THEN task_Return(task, Failed(root.err))
    ELSE task_bulk_walk_get_bulk(
             [task EXCEPT !.root_id = root.oid, !.current_oid_str = root_oid_str],
             community, max_repititions, root_oid_str)

\* bulk_walk_next, in main
task_bulk_walk_next(task, community, max_repititions, batch) ==
    IF batch.returned \/ ~batch.last_oid_in_batch.some
    THEN task_Return([task EXCEPT !.results = batch.results], Ok(batch.results))
    ELSE task_bulk_walk_get_bulk(
             [task EXCEPT !.results = batch.results,
                          !.current_oid_str = join(batch.last_oid_in_batch.oid)],
             community, max_repititions, join(batch.last_oid_in_batch.oid))

\* bulk_walk_turn, in main
task_bulk_walk_turn(task, community, max_repititions, varbind_batch) ==
    IF varbind_batch.kind # "Ok" THEN task_Return(task, varbind_batch)
    ELSE IF Len(varbind_batch.val[1]) = 0 THEN task_Return(task, Ok(task.results))
    ELSE task_bulk_walk_next(task, community, max_repititions,
                             bulk_walk_batch(task.root_id, varbind_batch.val[1],
                                             task.results, None))

\* manager.bulk_walk(..) in main, from one await to the next or to its return
task_bulk_walk_step(task, community, max_repititions, r) ==
    task_bulk_walk_turn([task EXCEPT !.recv = Append(@, r)], community,
                        max_repititions, get_bulk_response(r))

\* The exit status once the Manager has returned to main: 0 for return Ok(()),
\* 1 for the Err that `?` returns from main, 101 for a panic in main; -1
\* while main awaits
main_exit_code(task) ==
    IF task.pc # "done" THEN -1
    ELSE CASE task.ret.kind = "Ok" -> 0
           [] task.ret.kind = "Err" -> 1
           [] task.ret.kind = "panic" -> 101

\* println!("--- Success! ..") and print_varbind of every varbind, after `?`
main_print_success(target, task) ==
    IF task.pc = "done" /\ task.ret.kind = "Ok"
    THEN <<[target |-> target, line |-> "Success", varbinds |-> task.ret.val[1],
            err |-> <<>>]>>
    ELSE <<>>

\* main from a poll of the Manager's future on: the await goes on, or `?`,
\* the printing and return Ok(())
main_polled(task) ==
    /\ tasks' = <<task>>
    /\ printed' = main_print_success(command.targets[1], task)
    /\ exit_code' = main_exit_code(task)
    /\ UNCHANGED <<overflow_checks, command, main_pb, joined,
                 manager_vars, codec_vars>>

\* main in the arm Command::Bulk, up to the await inside get_bulk or to the
\* end of main
main_bulk_call ==
    /\ command.op = "Bulk"
    /\ tasks = <<>>
    /\ main_polled(task_get_bulk_call(Spawned, command.community,
                                      DefaultNonRepeaters, DefaultMaxRepititions,
                                      <<command.oid>>))

\* main in the arm Command::Bulk, from the await on
main_bulk_return(r) ==
    /\ command.op = "Bulk"
    /\ Len(tasks) = 1
    /\ tasks[1].pc = "wait"
    /\ main_polled(task_get_bulk_return(tasks[1], r))

\* main in the arm Command::BulkWalk, up to the first await inside bulk_walk
\* or to the end of main
main_bulk_walk_call ==
    /\ command.op = "BulkWalk"
    /\ tasks = <<>>
    /\ main_polled(task_bulk_walk_call(Spawned, command.community, command.oid,
                                       DefaultMaxRepetitions,
                                       parse_oid_string(command.oid)))

\* main in the arm Command::BulkWalk, from one await to the next or to the
\* end of main
main_bulk_walk_step(r) ==
    /\ command.op = "BulkWalk"
    /\ Len(tasks) = 1
    /\ tasks[1].pc = "wait"
    /\ main_polled(task_bulk_walk_step(tasks[1], command.community,
                                       DefaultMaxRepetitions, r))

CliInit ==
    /\ overflow_checks \in BOOLEAN
    /\ ManagerIdle
    /\ CodecIdle
    /\ command \in CliCommands
    /\ tasks = <<>>
    /\ main_pb = NoProgress
    /\ joined = <<>>
    /\ printed = <<>>
    /\ exit_code = -1

\* What send_and_receive may return to main
main_send_and_receive ==
    IF Len(tasks) = 1 THEN task_send_and_receive(tasks[1].recv) ELSE {}

CliNext ==
    \/ MainNext
    \/ main_bulk_call
    \/ \E r \in main_send_and_receive : main_bulk_return(r)
    \/ main_bulk_walk_call
    \/ \E r \in main_send_and_receive : main_bulk_walk_step(r)

CliSpec == CliInit /\ [][CliNext]_vars

\* ------------------------------------------------------------------------
\* Properties
\* ------------------------------------------------------------------------
\* What the properties read from a reply: whether it is a message, its PDU,
\* its error status (only the basic shape has one) and its first varbind.
Parsed(r) == r.ok /\ parse_message(r.bytes).ok

PduOf(r) == parse_message(r.bytes).message.pdu

HasErrorStatus(pdu, status) ==
    pdu.data.shape = "Basic" /\ pdu.data.error_status = status

NoErrorStatus(pdu) ==
    ~(pdu.data.shape = "Basic" /\ pdu.data.error_status # NoError)

HasVarbind(r) == Parsed(r) /\ Len(PduOf(r).varbinds) > 0

\* The operation returned r
Returns(r) == ret.kind = r.kind /\ ret.val = r.val /\ ret.err = r.err

\* child has root as a prefix
HasPrefix(root, child) ==
    /\ Len(child) >= Len(root)
    /\ \A i \in 1..Len(root) : child[i] = root[i]

ExceptionValue(value) == value.t \in {"NoSuchObject", "NoSuchInstance", "EndOfMib"}

\* A varbind that ends a traversal of the subtree of root
EndsTraversal(root, varbind) ==
    ExceptionValue(varbind.value) \/ ~HasPrefix(root, varbind.oid)

\* The first varbinds of the replies before the i-th
FirstVarbindsBefore(i) ==
    [j \in 1..(i - 1) |->
        IF HasVarbind(recv[j]) THEN PduOf(recv[j]).varbinds[1] ELSE <<>>]

\* walk on the i-th reply: it returned the first varbinds of the replies
\* before it, after i requests and no more
WalkStoppedAt(i) ==
    /\ i = Len(recv)
    /\ pc = "done"
    /\ Returns(Ok(FirstVarbindsBefore(i)))
    /\ Len(sent) = i

\* A GetNext reply that is a terminator whatever its error status
TerminatorAnyStatus(root, r) ==
    /\ Parsed(r)
    /\ \/ HasErrorStatus(PduOf(r), NoSuchName)
       \/ HasVarbind(r) /\ EndsTraversal(root, PduOf(r).varbinds[1])

\* A GetNext reply that is a terminator: error_status NoSuchName, or no
\* error status other than NoError and a first varbind that ends the traversal
Terminator(root, r) ==
    /\ Parsed(r)
    /\ \/ HasErrorStatus(PduOf(r), NoSuchName)
       \/ /\ NoErrorStatus(PduOf(r))
          /\ HasVarbind(r)
          /\ EndsTraversal(root, PduOf(r).varbinds[1])

\* C1 as stated: walk stops at the first reply that has error_status
\* NoSuchName, an exception value or an OID outside the root subtree, and
\* returns success with the varbinds of the replies before it, having issued
\* no further request.
C1_StopsAtAnyStatusTerminator ==
    call.op = "walk" =>
        \A i \in 1..Len(recv) : TerminatorAnyStatus(root_id, recv[i]) => WalkStoppedAt(i)

\* C1, amended: walk stops at the first reply that has error_status
\* NoSuchName, or that has no error status other than NoError and a first
\* varbind with an exception value or with an OID outside the root subtree;
\* it returns success with exactly the first varbinds of the replies before
\* that one and issues no further request.
C1_WalkStopsAtFirstTerminator ==
    call.op = "walk" =>
        \A i \in 1..Len(recv) : Terminator(root_id, recv[i]) => WalkStoppedAt(i)

\* Three replies, the third out of the subtree: two results, three requests
C1_Witness ==
    /\ call.op = "walk"
    /\ Len(recv) = 3
    /\ recv[3].ok /\ recv[3].bytes = ReplyOut
    /\ Terminator(root_id, recv[3])
    /\ ret.kind = "Ok" /\ Len(ret.val[1]) = 2
    /\ Len(sent) = 3

\* C2: at every point of a walk or bulk_walk, every varbind of the result
\* list has the root OID as a prefix and a value that is none of
\* NoSuchObject, NoSuchInstance, EndOfMib; so has every varbind returned.
InSubtreeNoException(varbinds) ==
    \A i \in 1..Len(varbinds) :
        /\ HasPrefix(root_id, varbinds[i].oid)
        /\ ~ExceptionValue(varbinds[i].value)

C2_ResultsInSubtree ==
    call.op \in {"walk", "bulk_walk"} =>
        /\ InSubtreeNoException(results)
        /\ ret.kind = "Ok" => InSubtreeNoException(ret.val[1])

\* The root itself was accepted and a shorter OID was offered and refused
C2_Witness ==
    /\ call.op \in {"walk", "bulk_walk"}
    /\ pc = "done" /\ ret.kind = "Ok"
    /\ \E i \in 1..Len(results) : results[i].oid = root_id
    /\ \E i \in 1..Len(recv) :
           /\ HasVarbind(recv[i])
           /\ Len(PduOf(recv[i]).varbinds[1].oid) < Len(root_id)

\* A reply get_bulk returns as a batch: tag GetResponse, error_status NoError
AcceptedBatch(r) ==
    /\ Parsed(r)
    /\ PduOf(r).tag = GetResponse
    /\ HasErrorStatus(PduOf(r), NoError)

BatchOf(r) == IF AcceptedBatch(r) THEN PduOf(r).varbinds ELSE <<>>

\* The varbinds of the first i batches received, in order
RECURSIVE BatchesUpTo(_)
BatchesUpTo(i) == IF i = 0 THEN <<>> ELSE BatchesUpTo(i - 1) \o BatchOf(recv[i])

\* The varbinds of the batch before position k
BatchBefore(batch, k) == [j \in 1..(k - 1) |-> batch[j]]

\* The first varbind of the batch that ends the traversal is at position k
FirstEndAt(root, batch, k) ==
    /\ k \in 1..Len(batch)
    /\ EndsTraversal(root, batch[k])
    /\ \A j \in 1..(k - 1) : ~EndsTraversal(root, batch[j])

\* C3: bulk_walk takes the varbinds of each batch in order and, at the first
\* one with an exception value or an OID outside the root subtree, returns
\* the earlier batches followed by the varbinds of this batch before that
\* one; later varbinds are ignored and no further GetBulk request is issued.
C3_BulkWalkStopsInsideBatch ==
    call.op = "bulk_walk" =>
        \A i \in 1..Len(recv) : \A k \in 1..Len(BatchOf(recv[i])) :
            FirstEndAt(root_id, BatchOf(recv[i]), k) =>
                /\ i = Len(recv)
                /\ pc = "done"
                /\ Returns(Ok(BatchesUpTo(i - 1) \o BatchBefore(BatchOf(recv[i]), k)))
                /\ Len(sent) = i

\* A whole batch, then a batch whose second of three varbinds is outside
C3_Witness ==
    /\ call.op = "bulk_walk"
    /\ Len(recv) = 2
    /\ recv[1].ok /\ recv[1].bytes = ReplyBatch
    /\ recv[2].ok /\ recv[2].bytes = ReplyBatchOut
    /\ FirstEndAt(root_id, BatchOf(recv[2]), 2)
    /\ ret.kind = "Ok" /\ Len(ret.val[1]) = 3
    /\ Len(sent) = 2

\* C5: in walk a reply with error_status NoSuchName ends the walk with
\* success and the results so far; a reply with any other error_status than
\* NoError makes walk return the error naming status and index, no result
\* list, and no further request is issued.
C5_WalkErrorStatus ==
    call.op = "walk" =>
        \A i \in 1..Len(recv) :
            (Parsed(recv[i]) /\ ~NoErrorStatus(PduOf(recv[i]))) =>
                /\ i = Len(recv)
                /\ pc = "done"
                /\ Len(sent) = i
                /\ Returns(IF PduOf(recv[i]).data.error_status = NoSuchName
                           THEN Ok(FirstVarbindsBefore(i))
                           ELSE Failed(<<"SNMP Error",
                                         PduOf(recv[i]).data.error_status,
                                         PduOf(recv[i]).data.error_index>>))

\* A walk that had results when a ReadOnly reply came
C5_Witness ==
    /\ call.op = "walk"
    /\ Len(results) > 0
    /\ recv[Len(recv)].ok /\ recv[Len(recv)].bytes = ReplyReadOnly
    /\ Returns(Failed(<<"SNMP Error", ReadOnly, 2>>))

\* C10: when the transport returns Timeout or an I/O error, the operation
\* returns that error, not the results accumulated, and issues no request
\* after the failed exchange.
C10_TransportErrorReturned ==
    \A i \in 1..Len(recv) :
        ~recv[i].ok =>
            /\ i = Len(recv)
            /\ pc = "done"
            /\ Returns(Failed(recv[i].err))
            /\ Len(sent) = i

\* A bulk_walk that had results when the exchange timed out
C10_Witness ==
    /\ call.op = "bulk_walk"
    /\ Len(results) > 0
    /\ recv[Len(recv)] = Err(<<"Timeout">>)
    /\ Returns(Failed(<<"Timeout">>))
    /\ Len(sent) = Len(recv)

\* What a request on the wire asks for: the message its bytes decode to
OnWire(packet) == parse_message(packet)

\* The message that pairs each OID with Null under the given tag and data
Asking(tag, data, oids) ==
    [ok |-> TRUE,
     message |-> Request(tag, call.community, data,
                         [i \in 1..Len(oids) |-> NullVarBind(oids[i])])]

\* The OID an OID string names
OidNamed(oid_str) == parse_oid_string(oid_str).oid

\* The varbinds accepted from the first i replies, in the order they arrived
AcceptedUpTo(i) ==
    IF call.op = "walk" THEN FirstVarbindsBefore(i + 1) ELSE BatchesUpTo(i)

\* The OID of the last varbind accepted from the i-th reply
LastAcceptedOid(i) ==
    IF call.op = "walk" THEN PduOf(recv[i]).varbinds[1].oid
    ELSE BatchOf(recv[i])[Len(BatchOf(recv[i]))].oid

\* The i-th reply was parsed and does not end the traversal
NonTerminating(i) ==
    IF call.op = "walk"
    THEN HasVarbind(recv[i]) /\ ~Terminator(root_id, recv[i])
    ELSE /\ AcceptedBatch(recv[i])
         /\ Len(BatchOf(recv[i])) > 0
         /\ \A k \in 1..Len(BatchOf(recv[i])) :
                ~EndsTraversal(root_id, BatchOf(recv[i])[k])

\* C4: within one walk or bulk_walk at most one request is outstanding;
\* request N+1 is sent only after reply N was received and classified as
\* non-terminating; the first request asks for the root and request N+1 for
\* exactly the OID of the last varbind accepted from reply N; the result list
\* is the accepted varbinds in the order their replies arrived.
C4_OneRequestAtATime ==
    call.op \in {"walk", "bulk_walk"} =>
        /\ Len(recv) <= Len(sent)
        /\ Len(sent) <= Len(recv) + 1
        /\ Len(sent) >= 1 =>
               /\ OnWire(sent[1]).ok
               /\ OnWire(sent[1]).message.pdu.varbinds = <<NullVarBind(root_id)>>
        /\ \A n \in 1..(Len(sent) - 1) :
               /\ NonTerminating(n)
               /\ OnWire(sent[n + 1]).ok
               /\ OnWire(sent[n + 1]).message.pdu.varbinds
                      = <<NullVarBind(LastAcceptedOid(n))>>
        /\ pc = "wait" => results = AcceptedUpTo(Len(recv))

\* C6: after a whole batch without a terminator the next GetBulk request of
\* bulk_walk asks for the OID of the last varbind of that batch, with
\* non_repeaters 0, the caller's max_repetitions and that single OID; an
\* empty batch ends bulk_walk with success and the results so far.
C6_NextBulkAsksLastOid ==
    call.op = "bulk_walk" =>
        /\ \A n \in 1..(Len(sent) - 1) :
               OnWire(sent[n + 1]) =
                   Asking(GetBulkRequest, Bulk(0, call.max_repititions),
                          <<LastAcceptedOid(n)>>)
        /\ \A i \in 1..Len(recv) :
               (AcceptedBatch(recv[i]) /\ Len(BatchOf(recv[i])) = 0) =>
                   /\ i = Len(recv)
                   /\ pc = "done"
                   /\ Returns(Ok(BatchesUpTo(i - 1)))
                   /\ Len(sent) = i

\* C7: get sends one GetRequest (version 1, request_id 1, NoError, 0, the
\* requested OID paired with Null); on a reply with error_status other than
\* NoError it returns the error naming status and index, on a reply without
\* varbinds the no-varbinds error, and otherwise the first varbind.
C7_GetRequestAndReply ==
    call.op = "get" =>
        /\ Len(sent) <= 1
        /\ \A n \in 1..Len(sent) :
               OnWire(sent[n]) =
                   Asking(GetRequest, Basic(NoError, 0), <<OidNamed(call.oid_strs[1])>>)
        /\ \A i \in 1..Len(recv) :
               Parsed(recv[i]) =>
                   /\ Len(sent) = 1
                   /\ pc = "done"
                   /\ Returns(IF ~NoErrorStatus(PduOf(recv[i]))
                              THEN Failed(<<"SNMP Error",
                                            PduOf(recv[i]).data.error_status,
                                            PduOf(recv[i]).data.error_index>>)
                              ELSE IF Len(PduOf(recv[i]).varbinds) = 0
                              THEN Failed(<<"No VarBinds in response">>)
                              ELSE Ok(PduOf(recv[i]).varbinds[1]))

\* C8: get_bulk sends one GetBulkRequest with the given non_repeaters and
\* max_repetitions and one (OID, Null) varbind per input OID in input order;
\* it returns success only on a reply with tag GetResponse, the basic shape
\* and error_status NoError, and then all varbinds of the reply in order;
\* any other reply is an error.
C8_GetBulkRequestAndReply ==
    call.op = "get_bulk" =>
        /\ Len(sent) <= 1
        /\ \A n \in 1..Len(sent) :
               OnWire(sent[n]) =
                   Asking(GetBulkRequest,
                          Bulk(call.non_repeaters, call.max_repititions),
                          [i \in 1..Len(call.oid_strs) |-> OidNamed(call.oid_strs[i])])
        /\ \A i \in 1..Len(recv) :
               /\ Len(sent) = 1
               /\ pc = "done"
               /\ IF AcceptedBatch(recv[i])
                  THEN Returns(Ok(PduOf(recv[i]).varbinds))
                  ELSE ret.kind = "Err"

\* C9: in get, walk, get_bulk and bulk_walk a reply whose PDU tag is not
\* GetResponse is rejected with the error for an unexpected PDU tag, and
\* none of its varbinds is returned or added to the results.
C9_UnexpectedPduTagRejected ==
    \A i \in 1..Len(recv) :
        (Parsed(recv[i]) /\ PduOf(recv[i]).tag # GetResponse) =>
            /\ i = Len(recv)
            /\ pc = "done"
            /\ Returns(Failed(<<"Expewcted GetBulkRequest, got", PduOf(recv[i]).tag>>))
            /\ results = AcceptedUpTo(i - 1)


\* ------------------------------------------------------------------------
\* Properties of the codec
\* ------------------------------------------------------------------------
\* What the reader returned
Back == back.r[1]

\* C12: for every valid message m (its data of the shape of its tag, any
\* varbinds over the value variants), to_bytes writes m and parse_message of
\* the bytes succeeds and returns m.
C12_MessageRoundTrip ==
    arg.is = "SnmpMessage" =>
        /\ wire.state # "panic"
        /\ back.state = "read" => (Back.ok /\ Back.message = arg.v[1])

\* C13: every ObjectSyntax value v, written with write_to_buf, read with
\* parse_ber_object and decoded with from_ber, comes back as v with no
\* bytes left over.
C13_ValueRoundTrip ==
    arg.is = "ObjectSyntax" =>
        /\ wire.state # "panic"
        /\ back.state = "read" =>
               (Back.ok /\ Back.value = arg.v[1] /\ Back.rest = <<>>)

\* The OIDs of the round trip: at least two arcs, the first at most 2, the
\* second at most 39 under the first arcs 0 and 1
RoundTripOid(o) ==
    /\ Len(o) >= 2
    /\ o[1] <= 2
    /\ o[1] <= 1 => o[2] <= 39

\* C14: for every such OID o, decode_oid of the value bytes encode_oid wrote
\* for o returns o.
C14_OidRoundTrip ==
    (arg.is = "oid" /\ RoundTripOid(arg.v[1])) =>
        /\ wire.state # "panic"
        /\ back.state = "read" => (Back.ok /\ Back.oid = arg.v[1])

\* C15: encode_oid writes every subidentifier v > 0 after the first two as
\* its groups of 7 bits, most significant first, each group but the last with
\* 0x80 set and the last as it is, and writes the one byte 00 for v = 0; so
\* 1.3.6.1.4.1.8072 is written as 06 07 2B 06 01 04 01 BF 48.
C15_SubIdsInBase128 ==
    (arg.is = "oid" /\ wire.state = "written") =>
        /\ Skip(wire.bytes, 3) = PeerSubIds(Skip(arg.v[1], 2))
        /\ arg.v[1] = <<1, 3, 6, 1, 4, 1, 8072>> =>
               wire.bytes = <<6, 7, 43, 6, 1, 4, 1, 191, 72>>

\* The tag of an unsigned variant
UnsignedTag(t) ==
    CASE t = "Counter32" -> Counter32
      [] t = "Gauge32" -> Gauge32
      [] t = "TimeTicks" -> TimeTicks
      [] t = "Counter64" -> Counter64

IsUnsigned(v) == v.t \in {"Counter32", "Gauge32", "TimeTicks", "Counter64"}

\* C16: for every u32 of Counter32, Gauge32 and TimeTicks and every u64 of
\* Counter64 the encoder writes the tag, the length and the big-endian bytes
\* without leading zeros, one 00 in front when the first of them has bit
\* 0x80 set: five value bytes from 2^31 and nine from 2^63, and Gauge32
\* 2147483648 is 42 05 00 80 00 00 00.
C16_UnsignedMinimalBytes ==
    (arg.is = "ObjectSyntax" /\ IsUnsigned(arg.v[1])) =>
        /\ wire.state # "panic"
        /\ wire.state = "written" =>
               /\ wire.bytes = <<UnsignedTag(arg.v[1].t), Len(PeerUnsigned(arg.v[1].v))>>
                                \o PeerUnsigned(arg.v[1].v)
               /\ arg.v[1] = Syntax("Gauge32", <<32768, 0>>) =>
                      wire.bytes = <<66, 5, 0, 128, 0, 0, 0>>

\* The integer that big-endian two's complement bytes stand for
RECURSIVE TwosComplementValue(_)
TwosComplementValue(c) ==
    IF Len(c) = 1 THEN (IF c[1] >= 128 THEN c[1] - 256 ELSE c[1])
    ELSE TwosComplementValue(Take(c, Len(c) - 1)) * 256 + c[Len(c)]

\* No leading 00 unless the next byte has bit 0x80 set, no leading FF unless
\* the next byte has it clear
MinimalTwosComplement(c) ==
    /\ Len(c) >= 1
    /\ Len(c) > 1 =>
           /\ ~(c[1] = 0 /\ c[2] < 128)
           /\ ~(c[1] = 255 /\ c[2] >= 128)

\* C17: for every i32 n encode_integer writes tag 02, the length and the
\* shortest two's complement big-endian bytes of n (0 as the one byte 00,
\* 127 as 02 01 7F, 128 as 02 02 00 80, -1 as 02 01 FF, -128 as 02 01 80),
\* and decode_integer of those value bytes returns n.
C17_IntegerMinimalRoundTrip ==
    (arg.is = "i32" /\ wire.state = "written") =>
        /\ wire.bytes[1] = Integer
        /\ wire.bytes[2] = Len(wire.bytes) - 2
        /\ MinimalTwosComplement(Skip(wire.bytes, 2))
        /\ TwosComplementValue(Skip(wire.bytes, 2)) = arg.v[1]
        /\ arg.v[1] = 0 => wire.bytes = <<2, 1, 0>>
        /\ arg.v[1] = 127 => wire.bytes = <<2, 1, 127>>
        /\ arg.v[1] = 128 => wire.bytes = <<2, 2, 0, 128>>
        /\ arg.v[1] = -1 => wire.bytes = <<2, 1, 255>>
        /\ arg.v[1] = -128 => wire.bytes = <<2, 1, 128>>
        /\ back.state = "read" => (Back.ok /\ Back.val = arg.v[1])

\* -129 written as 02 02 FF 7F and read back
C17_Witness ==
    /\ arg.is = "i32"
    /\ arg.v[1] = -129
    /\ wire.bytes = <<2, 2, 255, 127>>
    /\ back.state = "read"
    /\ Back.ok
    /\ Back.val = -129

\* The packet has bytes left over at one of the four places
LeftOver(packet) ==
    /\ packet.extra.place # "none"
    /\ packet.extra.place = "value" => Len(packet.message.pdu.varbinds) > 0

HasBadStatus(message) ==
    /\ message.pdu.data.shape = "Basic"
    /\ message.pdu.data.error_status \notin 0..5

\* What parse_message is to return for the packet of a message: the message
\* with the shape of its tag, or InvalidEnumValue for its error_status
ReturnsAsEncoded(message) ==
    IF HasBadStatus(message)
    THEN ~Back.ok /\ Back.err = <<"InvalidEnumValue", message.pdu.data.error_status>>
    ELSE Back.ok /\ Back.message = message

\* A packet with no bytes left over has been parsed
ParsedWellFormed ==
    arg.is = "Packet" /\ arg.v[1].extra.place = "none" /\ back.state = "read"

SecondArcsBelow40(message) ==
    \A i \in 1..Len(message.pdu.varbinds) : message.pdu.varbinds[i].oid[2] <= 39

GetBulkOfNoOids == call.op = "get_bulk" /\ call.oid_strs = <<>>

\* C20: get_bulk called with an empty list of OIDs returns the error of the
\* empty list, and no request has been handed to the transport.
C20_EmptyOidListRejected ==
    GetBulkOfNoOids =>
        /\ pc = "done"
        /\ Returns(Failed(<<"GetBulkRequest needs atlaeat one oid">>))
        /\ sent = <<>>
        /\ recv = <<>>

C20_Witness ==
    /\ GetBulkOfNoOids
    /\ call.non_repeaters = 1
    /\ call.max_repititions = 10
    /\ pc = "done"
    /\ ret.kind = "Err"
    /\ sent = <<>>

\* ------------------------------------------------------------------------
\* Properties of main
\* ------------------------------------------------------------------------

\* What manager.get(..).await.map(..) returns when it is the only call
\* running and send_and_receive returns the elements of log in turn
get_alone(community, oid_str, log) ==
    LET req == get_request(community, oid_str)
    IN  IF ~req.ok THEN Failed(req.err)
        ELSE IF to_bytes_panics(req.message, overflow_checks) THEN Panic
        ELSE IF Len(log) = 0 THEN NoReturn
        ELSE map_vec(get_response(log[1]))

RECURSIVE walk_alone(_, _, _, _, _)

\* The same for the loop of manager.walk(..), about to ask for current
walk_alone(community, root, current, found, log) ==
    IF to_bytes_panics(walk_request(community, current), overflow_checks) THEN Panic
    ELSE IF Len(log) = 0 THEN NoReturn
    ELSE LET turn == walk_response(root, log[1])
         IN  CASE turn.kind = "Err" -> Failed(turn.err)
               [] turn.kind = "break" -> Ok(found)
               [] turn.kind = "push" ->
                      walk_alone(community, root, turn.response_varbind.oid,
                                 Append(found, turn.response_varbind), Tail(log))

\* What the task of a target returns, or that it panics, when it runs alone
Alone(log) ==
    IF command.op = "Get" THEN get_alone(command.community, command.oid, log)
    ELSE LET root == parse_oid_string(command.oid)
         IN  IF ~root.ok THEN Failed(root.err)
             ELSE walk_alone(command.community, root.oid, root.oid, <<>>, log)

\* What is to be printed for a target whose task, alone, ends with outcome
Reported(target, outcome) ==
    [target |-> target,
     line |-> CASE outcome.kind = "Ok" -> "Success"
                [] outcome.kind = "Err" -> "Error"
                [] outcome.kind = "panic" -> "Task Panicked"
                [] OTHER -> "none",
     varbinds |-> IF outcome.kind = "Ok" THEN outcome.val[1] ELSE <<>>,
     err |-> outcome.err]

\* Every task that has ended has ended as it would alone on the replies its
\* target gave; nothing is printed before every task has ended; what is
\* printed is, in the order of the targets, each target with the outcome of
\* its own task
TasksIndependent ==
    /\ \A i \in 1..Len(tasks) :
          tasks[i].pc = "done" =>
              /\ tasks[i].ret.kind # "none"
              /\ tasks[i].ret = Alone(tasks[i].recv)
    /\ Len(printed) > 0 =>
          /\ Len(tasks) = Len(command.targets)
          /\ \A i \in 1..Len(tasks) : tasks[i].pc = "done"
    /\ Len(printed) <= Len(command.targets)
    /\ \A i \in 1..Len(printed) :
          printed[i] = Reported(command.targets[i], Alone(tasks[i].recv))

\* A result has been printed for every target
AllReported == Len(printed) = Len(command.targets)

EveryTargetSucceeded ==
    /\ Len(tasks) = Len(command.targets)
    /\ \A i \in 1..Len(tasks) : tasks[i].pc = "done" /\ tasks[i].ret.kind = "Ok"

\* C21: the process exits with status 0 only when the operation of every
\* target succeeded, and with another status when any target gave an error,
\* under each of the four subcommands.
C21_ExitStatus ==
    exit_code # -1 => (exit_code = 0 <=> EveryTargetSucceeded)

\* ------------------------------------------------------------------------
\* Properties of the tags the decoder expects
\* ------------------------------------------------------------------------

\* parse_message has read a packet with one wrong tag
ParsedRetagged == arg.is = "Retagged" /\ back.state = "read"

\* C22: at every field position of a message the decoder fails with
\* UnexpectedTag{expected, got} when the tag there is not the expected one,
\* expected being the tag the position is to carry and got the tag found
\* there; a message whose third field carries none of the PDU tags is not
\* accepted.
C22_UnexpectedTagAtEveryPosition ==
    ParsedRetagged =>
        /\ ~Back.ok
        /\ arg.v[1].position # "pdu" =>
              Back.err = <<"UnexpectedTag", arg.v[1].expected, arg.v[1].tag>>

\* ------------------------------------------------------------------------
\* Properties of decode_integer on any bytes
\* ------------------------------------------------------------------------

\* Two's complement bytes without the sign bytes that carry nothing
RECURSIVE StripSign(_)
StripSign(c) ==
    IF Len(c) > 1 /\ \/ (c[1] = 0 /\ c[2] < 128)
                     \/ (c[1] = 255 /\ c[2] >= 128)
    THEN StripSign(Skip(c, 1))
    ELSE c

\* The integer the bytes stand for is an i32
FitsI32(c) == Len(c) > 0 /\ Len(StripSign(c)) <= 4

\* Five bytes, the first a pad byte that is needed
CanonicalPadding(c) ==
    /\ Len(c) = 5
    /\ \/ (c[1] = 0 /\ c[2] >= 128)
       \/ (c[1] = 255 /\ c[2] < 128)

\* C23: decode_integer returns IncompleteData on empty input, IntegerOverflow
\* on more than five bytes and on five bytes that are not canonical padding;
\* a value it returns is the integer the input stands for as big-endian
\* two's complement, so bytes whose integer is no i32 give no value.
C23_DecodedValueIsDenoted ==
    (arg.is = "integer bytes" /\ back.state = "read") =>
        /\ Len(arg.v[1]) = 0 => (~Back.ok /\ Back.err = <<"IncompleteData">>)
        /\ Len(arg.v[1]) > 5 => (~Back.ok /\ Back.err = <<"IntegerOverflow">>)
        /\ (Len(arg.v[1]) = 5 /\ ~CanonicalPadding(arg.v[1])) =>
               (~Back.ok /\ Back.err = <<"IntegerOverflow">>)
        /\ Back.ok =>
               /\ FitsI32(arg.v[1])
               /\ Back.val = TwosComplementValue(StripSign(arg.v[1]))

\* ------------------------------------------------------------------------
\* Properties of the length octets
\* ------------------------------------------------------------------------

\* The number big-endian bytes stand for
RECURSIVE BigEndianValue(_)
BigEndianValue(c) ==
    IF Len(c) = 0 THEN 0
    ELSE BigEndianValue(Take(c, Len(c) - 1)) * 256 + c[Len(c)]

\* The length octets in front of the tail are the definite form of n: the
\* one byte n below 128, and from 128 the byte 0x80|k and the k bytes of n
\* with no leading 00
IsLengthOf(octets, n) ==
    IF n < 128 THEN octets = <<n>>
    ELSE /\ Len(octets) >= 2
         /\ octets[1] = 128 + (Len(octets) - 1)
         /\ octets[2] # 0
         /\ BigEndianValue(Skip(octets, 1)) = n

\* The first octet is 0x80 or 0xFF, or announces more than 8 length bytes,
\* or more length bytes than follow
BadLengthOctets(c) ==
    /\ Len(c) > 0
    /\ \/ c[1] = 128
       \/ c[1] = 255
       \/ c[1] > 128 /\ (c[1] - 128 > 8 \/ Len(c) - 1 < c[1] - 128)

\* C24: encode_length(n) writes the byte n below 128 and from 128 the byte
\* 0x80|k and the k bytes of the shortest big-endian form of n (127 as one
\* byte, 128 as 81 80, 256 as 82 01 00); parse_length of that output followed
\* by any tail returns n and the tail; parse_length rejects the first octets
\* 0x80 and 0xFF, more than 8 length bytes and fewer length bytes than
\* announced as MalformedLength.
C24_LengthOctets ==
    /\ (arg.is = "usize" /\ wire.state = "written") =>
          /\ Len(wire.bytes) > Len(arg.v[1].tail)
          /\ Skip(wire.bytes, Len(wire.bytes) - Len(arg.v[1].tail)) = arg.v[1].tail
          /\ IsLengthOf(Take(wire.bytes, Len(wire.bytes) - Len(arg.v[1].tail)),
                        arg.v[1].len)
          /\ (arg.v[1].len = 127 /\ arg.v[1].tail = <<>>) => wire.bytes = <<127>>
          /\ (arg.v[1].len = 128 /\ arg.v[1].tail = <<>>) => wire.bytes = <<129, 128>>
          /\ (arg.v[1].len = 256 /\ arg.v[1].tail = <<>>) => wire.bytes = <<130, 1, 0>>
          /\ back.state = "read" =>
                /\ Back.ok
                /\ Back.value_len = arg.v[1].len
                /\ Back.rest = arg.v[1].tail
    /\ (arg.is = "length bytes" /\ back.state = "read"
        /\ BadLengthOctets(arg.v[1])) =>
          (~Back.ok /\ Back.err = <<"MalformedLength">>)

\* 65536 written as 83 01 00 00 in front of the tail 82 01 and read back
C24_Witness ==
    /\ arg.is = "usize"
    /\ arg.v[1].len = 65536
    /\ arg.v[1].tail = <<130, 1>>
    /\ wire.bytes = <<131, 1, 0, 0, 130, 1>>
    /\ back.state = "read"
    /\ Back.ok
    /\ Back.value_len = 65536
    /\ Back.rest = <<130, 1>>

\* ------------------------------------------------------------------------
\* Properties of the order of the requests of a traversal
\* ------------------------------------------------------------------------

\* a comes before b in the lexicographic order of OIDs
LexLess(a, b) ==
    \E k \in 1..Len(b) :
        /\ \A j \in 1..(k - 1) : j <= Len(a) /\ a[j] = b[j]
        /\ k > Len(a) \/ a[k] < b[k]

\* The OID the n-th request asks for, as a peer reads it from the packet
AskedOid(n) == OnWire(sent[n]).message.pdu.varbinds[1].oid

\* C25: within one walk or bulk_walk the OID asked for in each request is
\* lexicographically strictly greater than the OID asked for in the request
\* before it, so that no OID is asked for twice and the traversal returns
\* whatever the agent answers (the requested OID itself, the root, or an OID
\* of the subtree smaller than the one requested).
C25_RequestsStrictlyIncrease ==
    call.op \in {"walk", "bulk_walk"} =>
        \A n \in 1..(Len(sent) - 1) : LexLess(AskedOid(n), AskedOid(n + 1))

\* ------------------------------------------------------------------------
\* Properties of the OID strings handed to the operations
\* ------------------------------------------------------------------------

\* The OID strings of the call: oid_strs of get_bulk, the one string of the
\* other operations
OidsNamed == [i \in 1..Len(call.oid_strs) |-> OidNamed(call.oid_strs[i])]

\* An OID of at least two subidentifiers whose first two fit one byte as
\* first * 40 + second
FitsFirstByte(oid) == Len(oid) >= 2 /\ oid[1] * 40 + oid[2] <= 255

\* C26: for every OID string given to get, walk, get_bulk or bulk_walk the
\* operation either returns an error value or sends a well-formed request
\* for the OIDs named; a string of fewer than two subidentifiers and one
\* whose first two subidentifiers do not fit one byte as first*40+second
\* make it return an error: it never aborts while encoding and never sends a
\* request whose OID differs from the one asked for.
C26_OidStringErrorOrRequest ==
    call.op # "none" =>
        /\ (pc = "done" /\ Len(sent) = 0) => ret.kind = "Err"
        /\ Len(sent) >= 1 =>
               /\ OnWire(sent[1]).ok
               /\ \A i \in 1..Len(call.oid_strs) :
                      /\ parse_oid_string(call.oid_strs[i]).ok
                      /\ FitsFirstByte(OidsNamed[i])
               /\ OnWire(sent[1]).message.pdu.varbinds
                      = [i \in 1..Len(call.oid_strs) |-> NullVarBind(OidsNamed[i])]

=============================================================================
